---------------------------- MODULE Spec2Model ----------------------------
(***************************************************************************)
(* f1viewer: the tree population and caching engine of src/main.go.        *)
(*                                                                         *)
(* Go strings whose characters matter (episode titles, source identifiers, *)
(* derived years) are sequences of one-character strings, compared byte by *)
(* byte as Go compares them.  Node texts that are only tested for equality *)
(* are TLA+ strings.                                                       *)
(***************************************************************************)
EXTENDS Integers, Sequences, FiniteSets, TLC

(***************************************************************************)
(* Bounds of the model.                                                    *)
(***************************************************************************)
\* longest source identifier drawn for the year derivation
MaxIdLen == 4
\* longest episode list handed to the episode organizer
MaxEpisodes == 4
\* loads (one loader task and one busy-indicator task each) alive at a time
MaxLoads == 1
\* content URLs of the category
NumContentUrls == 2
\* getDriverNames / getTeamNames calls running at a time
MaxCalls == 2
\* resolver worker goroutines alive at a time
MaxWorkers == 3
\* perspectives of a session
MaxPerspectives == 1
\* commands of a custom playback option
MaxCommands == 2
\* selections of one playback node
MaxDispatches == 2
\* output lines a monitor reads before the stream closes
MaxLines == 1
\* content URLs of a category whose fetch workers share the pool
MaxPoolUrls == 102
\* lines of a slice handed to convertIDs on its own
MaxConvLines == 2
\* racing numbers run from 0 to this one
MaxNumber == 99
\* calls of the function withBlink returns for one node
MaxBlinks == 2
\* expansions of "Full Race Weekends" running at a time
MaxReloads == 2

(***************************************************************************)
(* Strings.                                                                *)
(***************************************************************************)
\* the characters of the model's strings, in byte order
CharTable ==
    <<" ", "(", ")", "+", "-", "/",
      "0", "1", "2", "3", "4", "5", "6", "7", "8", "9",
      "A", "B", "C", "D", "T", "_",
      "a", "b", "d", "e", "i", "m", "p", "r", "t", "v">>

\* the rank of a character in byte order
Code(c) == CHOOSE i \in DOMAIN CharTable : CharTable[i] = c

IsDigit(c) == c \in {"0", "1", "2", "3", "4", "5", "6", "7", "8", "9"}
DigitValue(c) == Code(c) - Code("0")

\* the characters source identifiers are drawn from
Chars == {"+", "-", "0", "1", "2", "3", "5", "8", "9", "a", "b"}

\* Go's s < t on strings: bytewise lexicographic order
StrLess(s, t) ==
    \E i \in 1..(Len(t)) :
        /\ \A k \in 1..(i - 1) : k <= Len(s) /\ s[k] = t[k]
        /\ \/ i > Len(s)
           \/ i <= Len(s) /\ Code(s[i]) < Code(t[i])

\* the value of a digit string, most significant digit first
RECURSIVE DigitsValue(_)
DigitsValue(s) ==
    IF s = <<>> THEN 0
    ELSE 10 * DigitsValue(SubSeq(s, 1, Len(s) - 1)) + DigitValue(s[Len(s)])

\* strconv.Atoi: an optional sign followed by at least one digit and nothing
\* else; a syntax error returns the value 0
Atoi(s) ==
    LET signed == s # <<>> /\ s[1] \in {"+", "-"}
        body   == IF signed THEN SubSeq(s, 2, Len(s)) ELSE s
        ok     == body # <<>> /\ \A k \in 1..Len(body) : IsDigit(body[k])
        mag    == IF ok THEN DigitsValue(body) ELSE 0
    IN  [val |-> IF signed /\ s[1] = "-" THEN 0 - mag ELSE mag,
         err |-> ~ok]

(***************************************************************************)
(* Episode organizer: year derivation.                                     *)
(***************************************************************************)
\* getYearAndRace as addEpisodes calls it: (fullYear, raceNumber)
getYearAndRace(input) ==
    LET year    == SubSeq(input, 1, 2)
        intYear == Atoi(year).val
        fullYear == IF intYear < 30 THEN <<"2", "0">> \o year
                    ELSE <<"1", "9">> \o year
    IN  <<fullYear, SubSeq(input, 3, 4)>>

\* the error-returning getYearAndRace: [year, race, err]
getYearAndRaceErr(input) ==
    IF Len(input) < 4 THEN [year |-> <<>>, race |-> <<>>, err |-> TRUE]
    ELSE IF Atoi(SubSeq(input, 1, 4)).err
    THEN [year |-> <<>>, race |-> <<>>, err |-> TRUE]
    ELSE IF SubSeq(input, 1, 4) \in {<<"2", "0", "1", "8">>, <<"2", "0", "1", "9">>}
    THEN [year |-> SubSeq(input, 1, 4), race |-> <<"0">>, err |-> FALSE]
    ELSE [year |-> getYearAndRace(input)[1], race |-> SubSeq(input, 3, 4),
          err |-> FALSE]

(***************************************************************************)
(* Episode organizer: ordering and grouping (addEpisodes, after the join). *)
(***************************************************************************)
Titles == {<<"a">>, <<"b">>}
SourceIDs == {<<"0", "5", "0", "1">>, <<"0", "5", "0", "2">>,
              <<"9", "9", "0", "1">>, <<"2", "0", "1", "8">>,
              <<"a", "b", "0", "1">>, <<"-", "1", "2", "3">>}

\* what a failed getEpisode returns: the zero value of episodeStruct
ZeroEpisode == [Title |-> <<>>, DataSourceID |-> <<>>]

\* the records getEpisode can return for the content URLs of a category
EpisodePool ==
    {[Title |-> t, DataSourceID |-> d] : t \in Titles, d \in SourceIDs}
        \cup {ZeroEpisode}

\* s[:4] panics (slice bounds out of range) on a string shorter than 4
SlicePanics(ep) == Len(ep.DataSourceID) < 4

\* the less function handed to sort.Slice
EpisodeLess(a, b) ==
    LET err  == Atoi(SubSeq(a.DataSourceID, 1, 4)).err
        err2 == Atoi(SubSeq(b.DataSourceID, 1, 4)).err
        yr1  == getYearAndRace(a.DataSourceID)
        yr2  == getYearAndRace(b.DataSourceID)
    IN  IF err \/ err2 THEN StrLess(a.Title, b.Title)
        ELSE \/ StrLess(yr1[1], yr2[1])
             \/ yr1[1] = yr2[1] /\ StrLess(yr1[2], yr2[2])

Swap(s, i, j) == [s EXCEPT ![i] = s[j], ![j] = s[i]]

\* the inner loop of insertion sort: for j := i; j > a && less(j, j-1); j--
RECURSIVE InsertEpisode(_, _)
InsertEpisode(s, j) ==
    IF j > 1 /\ EpisodeLess(s[j], s[j - 1])
    THEN InsertEpisode(Swap(s, j, j - 1), j - 1)
    ELSE s

RECURSIVE SortFrom(_, _)
SortFrom(s, i) ==
    IF i > Len(s) THEN s ELSE SortFrom(InsertEpisode(s, i), i + 1)

\* sort.Slice(episodes, less): for slices of at most 6 elements the library
\* runs a plain insertion sort
SortEpisodes(eps) == SortFrom(eps, 2)

\* the comparator runs on every element of a slice of two or more
SortPanics(eps) ==
    Len(eps) >= 2 /\ \E k \in 1..Len(eps) : SlicePanics(eps[k])

\* the year a bucket is labelled with
BucketYear(ep) ==
    LET yearRaceID == SubSeq(ep.DataSourceID, 1, 4)
    IN  IF yearRaceID # <<"2", "0", "1", "8">> /\ yearRaceID # <<"2", "0", "1", "9">>
        THEN getYearAndRace(ep.DataSourceID)[1]
        ELSE yearRaceID

\* whether an episode is filed under a year bucket
HasYearRaceID(ep) == ~Atoi(SubSeq(ep.DataSourceID, 1, 4)).err

EpisodeNode(ep) == [kind |-> "episode", ref |-> ep, kids |-> <<>>]
YearNode(year) == [kind |-> "year", ref |-> year, kids |-> <<>>]

\* the child the loop over target.GetChildren() ends on: the last year node
\* whose reference equals year (0: none)
FatherIndex(kids, year) ==
    LET hits == {k \in 1..Len(kids) : kids[k].kind = "year" /\ kids[k].ref = year}
    IN  IF hits = {} THEN 0 ELSE CHOOSE k \in hits : \A m \in hits : m <= k

\* an attach loop that puts a new year node in front of the others
AttachDated_Prepend(kids, ep) ==
    LET year == BucketYear(ep)
        f    == FatherIndex(kids, year)
    IN  IF f = 0 THEN <<[YearNode(year) EXCEPT !.kids = <<EpisodeNode(ep)>>]>> \o kids
        ELSE [kids EXCEPT ![f].kids = Append(@, EpisodeNode(ep))]

\* one iteration of the attach loop on a dated episode: the target's children
AttachDated(kids, ep) ==
    LET year  == BucketYear(ep)
        f     == FatherIndex(kids, year)
        kids1 == IF f = 0 THEN Append(kids, YearNode(year)) ELSE kids
        g     == IF f = 0 THEN Len(kids1) ELSE f
    IN  [kids1 EXCEPT ![g].kids = Append(@, EpisodeNode(ep))]

(***************************************************************************)
(* State.                                                                  *)
(***************************************************************************)
VARIABLES
    tree,             \* the tree nodes the user can reach, by node name
    loads,            \* the running expansions: loader, workers, busy indicator
    drawn,            \* per load: the child lists of its node that a redraw showed
    episodeMap,       \* the episode cache
    episodeMapMutex,  \* its sync.RWMutex: [readers, writer]
    crashed,          \* a goroutine panicked: the process is gone
    driverMap,        \* the driver cache
    driverMapMutex,
    teamMap,          \* the team cache
    teamMapMutex,
    lines,            \* the identifier slices of the episodes (DriverUrls, TeamUrls)
    calls,            \* the running getDriverNames / getTeamNames calls
    fetches,          \* per identifier: the getDriver / getTeam requests issued
    yrInput, yrPc, yrOut,       \* year derivation of one source identifier
    orgInput, orgPc, orgKids,   \* organizing of one episode list
    options,          \* the custom playback options of the playback node
    pnode,            \* a playback node under an episode
    dispatched,       \* the runs of the selection handler on the playback node
    monitors,         \* the monitorCommand goroutines spawned for it
    pool,             \* addEpisodes on a long category: [urls, spawn, guard]
    fills,            \* the fillTableFromSlices goroutines, one per call slot
    abortq,           \* the senders blocked on the abortTable channel, oldest first
    conv,             \* one call of convertIDs: [input, pc, kind]
    named,            \* one driver whose display name is built: [driver, pc, out]
    wb                \* a node and the withBlink calls on it: [text, color, inv]

treeVars == <<tree, loads, drawn, episodeMap, episodeMapMutex, crashed>>
resVars == <<driverMap, driverMapMutex, teamMap, teamMapMutex, lines, calls, fetches>>
yrVars == <<yrInput, yrPc, yrOut>>
orgVars == <<orgInput, orgPc, orgKids>>
cmdVars == <<options, pnode, dispatched, monitors>>
fillVars == <<fills, abortq>>
restVars == <<fillVars, conv, named, wb>>
pureVars == <<yrVars, orgVars, cmdVars, pool, restVars>>
vars == <<treeVars, resVars, pureVars>>

SeqsUpTo(S, n) == UNION {[1..k -> S] : k \in 0..n}

(***************************************************************************)
(* The remote catalog.                                                     *)
(***************************************************************************)
\* vodTypes.Objects[0].ContentUrls
ContentUrls == [k \in 1..NumContentUrls |-> <<"episode", k>>]

\* the episode behind each content URL
CatalogEpisode(epID) ==
    IF epID[2] % 2 = 1 THEN [Title |-> <<"b">>, DataSourceID |-> <<"0", "5", "0", "1">>]
    ELSE [Title |-> <<"a">>, DataSourceID |-> <<"a", "b", "0", "1">>]

\* getEpisode: the record of the catalog, or the zero value when the request fails
getEpisode(epID) == {CatalogEpisode(epID), ZeroEpisode}

\* getSeasons: the season list, or the zero value when the request fails
SeasonS1 == [Name |-> "s1", EventoccurrenceUrls |-> <<"ev1", "ev2">>]
SeasonS2 == [Name |-> "s2", EventoccurrenceUrls |-> <<>>]
getSeasons == {[Seasons |-> <<SeasonS1, SeasonS2>>], [Seasons |-> <<>>]}

\* getEvent: ev1 has two sessions, ev2 has none yet; a failed request
\* returns the zero value
ZeroEvent == [OfficialName |-> "", SessionoccurrenceUrls |-> <<>>]
CatalogEvent(eventID) ==
    [OfficialName |-> eventID,
     SessionoccurrenceUrls |-> IF eventID = "ev1" THEN <<"ss1", "ss2">> ELSE <<>>]
getEvent(eventID) == {CatalogEvent(eventID), ZeroEvent}

\* getSession: a session is upcoming, live or over when it is asked for
ZeroSession == [Name |-> "", Status |-> "", Slug |-> ""]
getSession(sessionID) ==
    {[Name |-> sessionID, Status |-> st, Slug |-> sessionID] :
        st \in {"upcoming", "live", "finished"}} \cup {ZeroSession}

\* getSessionStreams: one object with the session's perspectives, or the zero
\* value (no object) when the request fails
Perspectives(k) == [i \in 1..k |-> [Name |-> "WIF", DriverUrls |-> <<>>]]
getSessionStreams(slug) ==
    IF slug = "" THEN {[Objects |-> <<>>]} ELSE
    {[Objects |-> <<[ChannelUrls |-> Perspectives(k)]>>] : k \in 0..MaxPerspectives}
        \cup {[Objects |-> <<>>]}

(***************************************************************************)
(* Tree nodes.                                                             *)
(***************************************************************************)
NilRef == [kind |-> "nil"]
\* a nil *tview.TreeNode
NilNode == [kind |-> "nil"]
Loading == <<"loading...">>

\* tview.NewTreeNode(text): white, selectable, expanded, no reference
NewTreeNode(text) ==
    [text |-> <<text>>, color |-> "White", selectable |-> TRUE,
     ref |-> NilRef, children |-> <<>>, expanded |-> TRUE]

\* the category node and the "Full Race Weekends" node main() builds
CategoryNode ==
    [NewTreeNode("category") EXCEPT !.ref = [kind |-> "int", i |-> 0],
                                    !.color = "Yellow"]
FullSessionsNode ==
    [NewTreeNode("Full Race Weekends") EXCEPT
        !.ref = [kind |-> "allSeasons", seasons |-> <<>>],
        !.expanded = FALSE, !.color = "Yellow"]

\* a child entry that names a node of the tree
ChildRef(id) == [kind |-> "node", id |-> id]

\* getPerspectiveNodes: one green node per perspective
PerspectiveNode(p) ==
    [kind |-> "perspective",
     text |-> IF p.Name = "WIF" THEN "Main Feed" ELSE p.Name,
     color |-> "Green"]
getPerspectiveNodes(perspectives) ==
    [i \in 1..Len(perspectives) |-> PerspectiveNode(perspectives[i])]

(***************************************************************************)
(* Loads: one per selection that starts an expansion.                      *)
(***************************************************************************)
Slots == DOMAIN loads

IdleWorker ==
    [pc |-> "idle", ep |-> ZeroEpisode, snap |-> <<>>, session |-> ZeroSession]

IdleLoad ==
    [node |-> "", kind |-> "", pcL |-> "idle", pcB |-> "idle",
     done |-> FALSE, hasSessions |-> FALSE,
     originalText |-> <<>>, originalColor |-> "",
     wg |-> 0, spawn |-> 0, inflight |-> 0, workers |-> <<>>,
     episodes |-> <<>>, skipped |-> <<>>, results |-> <<>>, idx |-> 0,
     touched |-> FALSE, final |-> <<>>]

\* the pool size of addEpisodes: guard := make(chan struct{}, 100)
GuardCap == 100

\* guard <- struct{}{} blocks while the channel is full
GuardHasRoom_Unbounded(held) == TRUE
GuardHasRoom(held) == held < GuardCap

Free(l) == loads[l].pcL \in {"idle", "end"} /\ loads[l].pcB \in {"idle", "end"}
\* the loader of the slot is between its start and its last statement
LoaderRunning(l) == loads[l].pcL \notin {"idle", "end"}

\* app.Draw(): the redraw shows the child list of every node being expanded
Draw(t) ==
    drawn' = [l \in Slots |->
                IF LoaderRunning(l) THEN drawn[l] \cup {t[loads[l].node].children}
                ELSE drawn[l]]

(***************************************************************************)
(* sync.RWMutex and sync.WaitGroup.                                        *)
(***************************************************************************)
UnlockedMutex == [readers |-> 0, writer |-> FALSE]
\* RLock returns once no writer holds the lock
CanRLock(m) == ~m.writer
\* a Lock that does not wait for the readers to leave
CanLock_IgnoresReaders(m) == ~m.writer
\* Lock returns once nobody holds the lock
CanLock(m) == ~m.writer /\ m.readers = 0
\* a Wait that does not wait
WaitReturns_NoJoin(l) == TRUE
\* wg.Wait() returns once the counter is zero
WaitReturns(l) == loads[l].wg = 0

(***************************************************************************)
(* tree.SetSelectedFunc: the selection handler, on the UI thread.          *)
(***************************************************************************)
\* the slot a new load takes
TakesSlot(l) == Free(l) /\ \A m \in Slots : Free(m) => l <= m

\* the user can move the cursor to the selectable nodes of the tree
CanSelect(n) == n \in DOMAIN tree /\ tree[n].selectable

\* reference == nil || node.GetText() == "loading...": nothing happens
SelectIgnored(n) ==
    /\ ~crashed
    /\ CanSelect(n)
    /\ tree[n].ref.kind = "nil" \/ tree[n].text = Loading
    /\ UNCHANGED treeVars
    /\ UNCHANGED <<resVars, pureVars>>

\* len(children) > 0: collapse or expand
SelectToggle(n) ==
    /\ ~crashed
    /\ CanSelect(n)
    /\ tree[n].ref.kind # "nil" /\ tree[n].text # Loading
    /\ Len(tree[n].children) > 0
    /\ tree' = [tree EXCEPT ![n].expanded = ~@]
    /\ UNCHANGED <<loads, drawn, episodeMap, episodeMapMutex, crashed>>
    /\ UNCHANGED <<resVars, pureVars>>

\* the branches that start an expansion: the handler spawns the loader and,
\* except for a category, the busy indicator, and returns
SelectLoad(n, kind, pcB) ==
    /\ ~crashed
    /\ CanSelect(n)
    /\ tree[n].ref.kind = kind /\ tree[n].text # Loading
    /\ Len(tree[n].children) = 0
    /\ \E l \in Slots :
        /\ TakesSlot(l)
        /\ loads' = [loads EXCEPT ![l] =
                [IdleLoad EXCEPT !.node = n, !.kind = kind,
                                 !.pcL = "start", !.pcB = pcB]]
        /\ drawn' = [drawn EXCEPT ![l] = {}]
    /\ UNCHANGED <<tree, episodeMap, episodeMapMutex, crashed>>
    /\ UNCHANGED <<resVars, pureVars>>

SelectEvent(n) == SelectLoad(n, "event", "getText")
SelectSeason(n) == SelectLoad(n, "season", "getText")
\* go addEpisodes(node, i): addEpisodes starts the busy indicator itself
SelectCategory(n) ==
    /\ n \in DOMAIN tree /\ tree[n].ref.kind = "int" /\ tree[n].ref.i < 1
    /\ SelectLoad(n, "int", "idle")
SelectAllSeasons(n) == SelectLoad(n, "allSeasons", "getText")

(***************************************************************************)
(* blinkNode: the busy indicator.                                          *)
(***************************************************************************)
OriginalColor(kind) ==
    CASE kind = "event" -> "White" [] kind = "season" -> "Wheat"
      [] OTHER -> "Yellow"

\* originalText := node.GetText()
BlinkGetText(l) ==
    /\ ~crashed
    /\ loads[l].pcB = "getText"
    /\ loads' = [loads EXCEPT ![l].originalText = tree[loads[l].node].text,
                              ![l].originalColor = OriginalColor(loads[l].kind),
                              ![l].pcB = "setText"]
    /\ UNCHANGED <<tree, drawn, episodeMap, episodeMapMutex, crashed>>
    /\ UNCHANGED <<resVars, pureVars>>

\* node.SetText("loading...")
BlinkSetText(l) ==
    /\ ~crashed
    /\ loads[l].pcB = "setText"
    /\ tree' = [tree EXCEPT ![loads[l].node].text = Loading]
    /\ loads' = [loads EXCEPT ![l].pcB = "loop"]
    /\ UNCHANGED <<drawn, episodeMap, episodeMapMutex, crashed>>
    /\ UNCHANGED <<resVars, pureVars>>

\* for !*done: the first half of a blink
BlinkOn(l) ==
    /\ ~crashed
    /\ loads[l].pcB = "loop" /\ ~loads[l].done
    /\ tree' = [tree EXCEPT ![loads[l].node].color = "Blue"]
    /\ Draw(tree')
    /\ loads' = [loads EXCEPT ![l].pcB = "off"]
    /\ UNCHANGED <<episodeMap, episodeMapMutex, crashed>>
    /\ UNCHANGED <<resVars, pureVars>>

\* the second half of a blink
BlinkOff(l) ==
    /\ ~crashed
    /\ loads[l].pcB = "off"
    /\ tree' = [tree EXCEPT ![loads[l].node].color = loads[l].originalColor]
    /\ Draw(tree')
    /\ loads' = [loads EXCEPT ![l].pcB = "loop"]
    /\ UNCHANGED <<episodeMap, episodeMapMutex, crashed>>
    /\ UNCHANGED <<resVars, pureVars>>

\* *done is set: node.SetText(originalText); app.Draw()
BlinkEnd(l) ==
    /\ ~crashed
    /\ loads[l].pcB = "loop" /\ loads[l].done
    /\ tree' = [tree EXCEPT ![loads[l].node].text = loads[l].originalText]
    /\ Draw(tree')
    /\ loads' = [loads EXCEPT ![l].pcB =
                    IF loads[l].kind = "event" THEN "after" ELSE "end"]
    /\ UNCHANGED <<episodeMap, episodeMapMutex, crashed>>
    /\ UNCHANGED <<resVars, pureVars>>

NoContentText == " - NO CONTENT AVAILABLE"

\* the event branch after blinkNode returns: flag an event without sessions
EventAfterBlink(l) ==
    /\ ~crashed
    /\ loads[l].pcB = "after"
    /\ tree' = IF ~loads[l].hasSessions
               THEN [tree EXCEPT ![loads[l].node].color = "Red",
                                 ![loads[l].node].text = Append(@, NoContentText),
                                 ![loads[l].node].selectable = FALSE]
               ELSE tree
    /\ Draw(tree')
    /\ loads' = [loads EXCEPT ![l].pcB = "end"]
    /\ UNCHANGED <<episodeMap, episodeMapMutex, crashed>>
    /\ UNCHANGED <<resVars, pureVars>>

(***************************************************************************)
(* addEpisodes: the expansion of a category.                               *)
(***************************************************************************)
IsCategoryLoad(l) == loads[l].kind = "int"

\* wg.Add(len(ContentUrls)); go blinkNode(...); go func() { spawn loop }()
AddEpisodesStart(l) ==
    /\ ~crashed
    /\ IsCategoryLoad(l) /\ loads[l].pcL = "start"
    /\ loads' = [loads EXCEPT ![l].wg = Len(ContentUrls),
                              ![l].workers = [i \in 1..Len(ContentUrls) |-> IdleWorker],
                              ![l].pcB = "getText",
                              ![l].spawn = 1,
                              ![l].pcL = "wait"]
    /\ UNCHANGED <<tree, drawn, episodeMap, episodeMapMutex, crashed>>
    /\ UNCHANGED <<resVars, pureVars>>

\* guard <- struct{}{}; go func(i int) {...}(i)
SpawnEpisodeWorker(l) ==
    /\ ~crashed
    /\ IsCategoryLoad(l) /\ loads[l].pcL # "start"
    /\ loads[l].spawn >= 1 /\ loads[l].spawn <= Len(ContentUrls)
    /\ GuardHasRoom(loads[l].inflight)
    /\ loads' = [loads EXCEPT ![l].inflight = @ + 1,
                              ![l].workers[loads[l].spawn].pc = "rlock",
                              ![l].spawn = @ + 1]
    /\ UNCHANGED <<tree, drawn, episodeMap, episodeMapMutex, crashed>>
    /\ UNCHANGED <<resVars, pureVars>>

EpisodeWorkerAt(l, i, pc) ==
    /\ IsCategoryLoad(l)
    /\ i \in DOMAIN loads[l].workers
    /\ loads[l].workers[i].pc = pc

\* episodeMapMutex.RLock()
EpisodeRLock(l, i) ==
    /\ ~crashed
    /\ EpisodeWorkerAt(l, i, "rlock")
    /\ CanRLock(episodeMapMutex)
    /\ episodeMapMutex' = [episodeMapMutex EXCEPT !.readers = @ + 1]
    /\ loads' = [loads EXCEPT ![l].workers[i].pc = "read"]
    /\ UNCHANGED <<tree, drawn, episodeMap, crashed>>
    /\ UNCHANGED <<resVars, pureVars>>

\* ep, ok := episodeMap[epID]; episodeMapMutex.RUnlock()
EpisodeRead(l, i) ==
    /\ ~crashed
    /\ EpisodeWorkerAt(l, i, "read")
    /\ episodeMapMutex' = [episodeMapMutex EXCEPT !.readers = @ - 1]
    /\ loads' = IF ContentUrls[i] \in DOMAIN episodeMap
                THEN [loads EXCEPT ![l].workers[i].ep = episodeMap[ContentUrls[i]],
                                   ![l].workers[i].pc = "append"]
                ELSE [loads EXCEPT ![l].workers[i].pc = "fetch"]
    /\ UNCHANGED <<tree, drawn, episodeMap, crashed>>
    /\ UNCHANGED <<resVars, pureVars>>

\* ep = getEpisode(epID)
EpisodeFetch(l, i) ==
    /\ ~crashed
    /\ EpisodeWorkerAt(l, i, "fetch")
    /\ \E ep \in getEpisode(ContentUrls[i]) :
        loads' = [loads EXCEPT ![l].workers[i].ep = ep,
                               ![l].workers[i].pc = "lock"]
    /\ UNCHANGED <<tree, drawn, episodeMap, episodeMapMutex, crashed>>
    /\ UNCHANGED <<resVars, pureVars>>

\* episodeMapMutex.Lock()
EpisodeLock(l, i) ==
    /\ ~crashed
    /\ EpisodeWorkerAt(l, i, "lock")
    /\ CanLock(episodeMapMutex)
    /\ episodeMapMutex' = [episodeMapMutex EXCEPT !.writer = TRUE]
    /\ loads' = [loads EXCEPT ![l].workers[i].pc = "write"]
    /\ UNCHANGED <<tree, drawn, episodeMap, crashed>>
    /\ UNCHANGED <<resVars, pureVars>>

\* episodeMap[epID] = ep; episodeMapMutex.Unlock()
EpisodeWrite(l, i) ==
    /\ ~crashed
    /\ EpisodeWorkerAt(l, i, "write")
    /\ episodeMap' = (ContentUrls[i] :> loads[l].workers[i].ep) @@ episodeMap
    /\ episodeMapMutex' = [episodeMapMutex EXCEPT !.writer = FALSE]
    /\ loads' = [loads EXCEPT ![l].workers[i].pc = "append"]
    /\ UNCHANGED <<tree, drawn, crashed>>
    /\ UNCHANGED <<resVars, pureVars>>

\* episodes = append(episodes, ep), unsynchronized: the worker reads the
\* slice ...
EpisodeAppendRead(l, i) ==
    /\ ~crashed
    /\ EpisodeWorkerAt(l, i, "append")
    /\ loads' = [loads EXCEPT ![l].workers[i].snap = loads[l].episodes,
                              ![l].workers[i].pc = "store"]
    /\ UNCHANGED <<tree, drawn, episodeMap, episodeMapMutex, crashed>>
    /\ UNCHANGED <<resVars, pureVars>>

\* ... and stores the slice it read with ep added, over whatever another
\* worker stored meanwhile
EpisodeAppendStore(l, i) ==
    /\ ~crashed
    /\ EpisodeWorkerAt(l, i, "store")
    /\ loads' = [loads EXCEPT
            ![l].episodes = Append(loads[l].workers[i].snap, loads[l].workers[i].ep),
            ![l].workers[i].snap = <<>>,
            ![l].workers[i].pc = "release"]
    /\ UNCHANGED <<tree, drawn, episodeMap, episodeMapMutex, crashed>>
    /\ UNCHANGED <<resVars, pureVars>>

\* <-guard
EpisodeRelease(l, i) ==
    /\ ~crashed
    /\ EpisodeWorkerAt(l, i, "release")
    /\ loads' = [loads EXCEPT ![l].inflight = @ - 1,
                              ![l].workers[i].pc = "done"]
    /\ UNCHANGED <<tree, drawn, episodeMap, episodeMapMutex, crashed>>
    /\ UNCHANGED <<resVars, pureVars>>

\* defer wg.Done()
EpisodeDone(l, i) ==
    /\ ~crashed
    /\ EpisodeWorkerAt(l, i, "done")
    /\ loads' = [loads EXCEPT ![l].wg = @ - 1,
                              ![l].workers[i].pc = "finished"]
    /\ UNCHANGED <<tree, drawn, episodeMap, episodeMapMutex, crashed>>
    /\ UNCHANGED <<resVars, pureVars>>

\* wg.Wait()
AddEpisodesWait(l) ==
    /\ ~crashed
    /\ IsCategoryLoad(l) /\ loads[l].pcL = "wait"
    /\ WaitReturns(l)
    /\ loads' = [loads EXCEPT ![l].pcL = "sort"]
    /\ UNCHANGED <<tree, drawn, episodeMap, episodeMapMutex, crashed>>
    /\ UNCHANGED <<resVars, pureVars>>

\* sort.Slice(episodes, ...): episodes[i].DataSourceID[:4] panics on a short
\* identifier
AddEpisodesSort(l) ==
    /\ ~crashed
    /\ IsCategoryLoad(l) /\ loads[l].pcL = "sort"
    /\ IF SortPanics(loads[l].episodes)
       THEN crashed' = TRUE /\ UNCHANGED loads
       ELSE /\ loads' = [loads EXCEPT ![l].episodes = SortEpisodes(@),
                                      ![l].idx = 1,
                                      ![l].pcL = "attach"]
            /\ UNCHANGED crashed
    /\ UNCHANGED <<tree, drawn, episodeMap, episodeMapMutex>>
    /\ UNCHANGED <<resVars, pureVars>>

\* one iteration of "for _, ep := range episodes"
AddEpisodesAttach(l) ==
    /\ ~crashed
    /\ IsCategoryLoad(l) /\ loads[l].pcL = "attach"
    /\ loads[l].idx <= Len(loads[l].episodes)
    /\ LET ep == loads[l].episodes[loads[l].idx]
           n  == loads[l].node
       IN  IF SlicePanics(ep)
           THEN crashed' = TRUE /\ UNCHANGED <<tree, loads>>
           ELSE /\ UNCHANGED crashed
                /\ IF HasYearRaceID(ep)
                   THEN /\ tree' = [tree EXCEPT ![n].children = AttachDated(@, ep)]
                        /\ loads' = [loads EXCEPT ![l].idx = @ + 1,
                                                  ![l].touched = TRUE]
                   ELSE /\ loads' = [loads EXCEPT
                                ![l].skipped = Append(@, EpisodeNode(ep)),
                                ![l].idx = @ + 1]
                        /\ UNCHANGED tree
    /\ UNCHANGED <<drawn, episodeMap, episodeMapMutex>>
    /\ UNCHANGED <<resVars, pureVars>>

\* the loop over the episodes is over
AddEpisodesAttached(l) ==
    /\ ~crashed
    /\ IsCategoryLoad(l) /\ loads[l].pcL = "attach"
    /\ loads[l].idx > Len(loads[l].episodes)
    /\ loads' = [loads EXCEPT ![l].idx = 1, ![l].pcL = "skipped"]
    /\ UNCHANGED <<tree, drawn, episodeMap, episodeMapMutex, crashed>>
    /\ UNCHANGED <<resVars, pureVars>>

\* one iteration of "for _, ep := range skippedEpisodes": target.AddChild(ep)
AddEpisodesSkipped(l) ==
    /\ ~crashed
    /\ IsCategoryLoad(l) /\ loads[l].pcL = "skipped"
    /\ loads[l].idx <= Len(loads[l].skipped)
    /\ tree' = [tree EXCEPT ![loads[l].node].children =
                    Append(@, loads[l].skipped[loads[l].idx])]
    /\ loads' = [loads EXCEPT ![l].idx = @ + 1, ![l].touched = TRUE]
    /\ UNCHANGED <<drawn, episodeMap, episodeMapMutex, crashed>>
    /\ UNCHANGED <<resVars, pureVars>>

\* doneLoading = true; app.Draw()
AddEpisodesFinish(l) ==
    /\ ~crashed
    /\ IsCategoryLoad(l) /\ loads[l].pcL = "skipped"
    /\ loads[l].idx > Len(loads[l].skipped)
    /\ loads' = [loads EXCEPT ![l].done = TRUE, ![l].pcL = "end",
                              ![l].final = tree[loads[l].node].children]
    /\ Draw(tree)
    /\ UNCHANGED <<tree, episodeMap, episodeMapMutex, crashed>>
    /\ UNCHANGED <<resVars, pureVars>>

(***************************************************************************)
(* The expansions of a season, an event and "Full Race Weekends".          *)
(***************************************************************************)
\* the identifiers whose fetches the workers of a load run
ChildUrls(l) ==
    LET ref == tree[loads[l].node].ref
    IN  CASE loads[l].kind = "season" -> ref.rec.EventoccurrenceUrls
          [] loads[l].kind = "event" -> ref.rec.SessionoccurrenceUrls
          [] OTHER -> <<>>

\* getEventNodes / getSessionNodes up to the Wait: wg.Add(len(urls)), the
\* result slice of nil nodes, one goroutine per url
FanOutStart(l, kind, pc) ==
    /\ ~crashed
    /\ loads[l].kind = kind /\ loads[l].pcL = "start"
    /\ loads' = [loads EXCEPT
            ![l].wg = Len(ChildUrls(l)),
            ![l].results = [m \in 1..Len(ChildUrls(l)) |-> NilNode],
            ![l].workers = [m \in 1..Len(ChildUrls(l)) |->
                                [IdleWorker EXCEPT !.pc = pc]],
            ![l].pcL = "wait"]
    /\ UNCHANGED <<tree, drawn, episodeMap, episodeMapMutex, crashed>>
    /\ UNCHANGED <<resVars, pureVars>>

GetEventNodesStart(l) == FanOutStart(l, "season", "getEvent")
GetSessionNodesStart(l) == FanOutStart(l, "event", "getSession")

\* the node getEventNodes builds for an event that has sessions
EventNode(event, eventID) ==
    [kind |-> "node", id |-> eventID,
     node |-> [NewTreeNode(event.OfficialName) EXCEPT
                    !.ref = [kind |-> "event", rec |-> event]]]

\* a worker of getEventNodes: event := getEvent(eventID); events[m] = node
\* when the event has sessions; wg1.Done()
EventWorker(l, m) ==
    /\ ~crashed
    /\ loads[l].kind = "season"
    /\ m \in DOMAIN loads[l].workers /\ loads[l].workers[m].pc = "getEvent"
    /\ \E event \in getEvent(ChildUrls(l)[m]) :
        loads' = [loads EXCEPT
            ![l].results[m] = IF Len(event.SessionoccurrenceUrls) > 0
                              THEN EventNode(event, ChildUrls(l)[m]) ELSE @,
            ![l].wg = @ - 1,
            ![l].workers[m].pc = "finished"]
    /\ UNCHANGED <<tree, drawn, episodeMap, episodeMapMutex, crashed>>
    /\ UNCHANGED <<resVars, pureVars>>

\* a worker of getSessionNodes: session := getSession(sessionID); an upcoming
\* session is done
SessionWorkerGetSession(l, n) ==
    /\ ~crashed
    /\ loads[l].kind = "event"
    /\ n \in DOMAIN loads[l].workers /\ loads[l].workers[n].pc = "getSession"
    /\ \E session \in getSession(ChildUrls(l)[n]) :
        loads' = IF session.Status # "upcoming"
                 THEN [loads EXCEPT ![l].workers[n].session = session,
                                    ![l].workers[n].pc = "getStreams"]
                 ELSE [loads EXCEPT ![l].wg = @ - 1,
                                    ![l].workers[n].pc = "finished"]
    /\ UNCHANGED <<tree, drawn, episodeMap, episodeMapMutex, crashed>>
    /\ UNCHANGED <<resVars, pureVars>>

\* the node getSessionNodes builds for a session
SessionNode(session, streams) ==
    [kind |-> "session",
     text |-> IF session.Status = "live" THEN <<session.Name, " - LIVE">>
              ELSE <<session.Name>>,
     color |-> IF session.Status = "live" THEN "Red" ELSE "White",
     kids |-> getPerspectiveNodes(streams.Objects[1].ChannelUrls)]

\* streams := getSessionStreams(session.Slug); sessions[n] = sessionNode;
\* streams.Objects[0] panics when there is no object; wg2.Done()
SessionWorkerGetStreams(l, n) ==
    /\ ~crashed
    /\ loads[l].kind = "event"
    /\ n \in DOMAIN loads[l].workers /\ loads[l].workers[n].pc = "getStreams"
    /\ \E streams \in getSessionStreams(loads[l].workers[n].session.Slug) :
        IF Len(streams.Objects) = 0
        THEN crashed' = TRUE /\ UNCHANGED loads
        ELSE /\ loads' = [loads EXCEPT
                    ![l].results[n] = SessionNode(loads[l].workers[n].session, streams),
                    ![l].wg = @ - 1,
                    ![l].workers[n].session = ZeroSession,
                    ![l].workers[n].pc = "finished"]
             /\ UNCHANGED crashed
    /\ UNCHANGED <<tree, drawn, episodeMap, episodeMapMutex>>
    /\ UNCHANGED <<resVars, pureVars>>

\* wg1.Wait() / wg2.Wait(), and the return of the result slice
FanOutWait(l) ==
    /\ ~crashed
    /\ loads[l].kind \in {"season", "event"} /\ loads[l].pcL = "wait"
    /\ WaitReturns(l)
    /\ loads' = [loads EXCEPT ![l].idx = 1, ![l].pcL = "attach"]
    /\ UNCHANGED <<tree, drawn, episodeMap, episodeMapMutex, crashed>>
    /\ UNCHANGED <<resVars, pureVars>>

\* season branch, one iteration: node.AddChild(event), a nil event too
SeasonAttach(l) ==
    /\ ~crashed
    /\ loads[l].kind = "season" /\ loads[l].pcL = "attach"
    /\ loads[l].idx <= Len(loads[l].results)
    /\ LET event == loads[l].results[loads[l].idx]
           n == loads[l].node
       IN  tree' = IF event.kind = "nil"
                   THEN [tree EXCEPT ![n].children = Append(@, NilNode)]
                   ELSE (event.id :> event.node) @@
                        [tree EXCEPT ![n].children = Append(@, ChildRef(event.id))]
    /\ loads' = [loads EXCEPT ![l].idx = @ + 1, ![l].touched = TRUE]
    /\ UNCHANGED <<drawn, episodeMap, episodeMapMutex, crashed>>
    /\ UNCHANGED <<resVars, pureVars>>

\* event branch, one iteration: a session that is not nil and has children
\* sets hasSessions and is attached
EventAttach(l) ==
    /\ ~crashed
    /\ loads[l].kind = "event" /\ loads[l].pcL = "attach"
    /\ loads[l].idx <= Len(loads[l].results)
    /\ LET session == loads[l].results[loads[l].idx]
           n == loads[l].node
       IN  IF session.kind # "nil" /\ Len(session.kids) > 0
           THEN /\ tree' = [tree EXCEPT ![n].children = Append(@, session)]
                /\ loads' = [loads EXCEPT ![l].idx = @ + 1,
                                          ![l].hasSessions = TRUE,
                                          ![l].touched = TRUE]
           ELSE /\ loads' = [loads EXCEPT ![l].idx = @ + 1]
                /\ UNCHANGED tree
    /\ UNCHANGED <<drawn, episodeMap, episodeMapMutex, crashed>>
    /\ UNCHANGED <<resVars, pureVars>>

\* done = true, the last statement of the loader of a season or an event
FanOutFinish(l) ==
    /\ ~crashed
    /\ loads[l].kind \in {"season", "event"} /\ loads[l].pcL = "attach"
    /\ loads[l].idx > Len(loads[l].results)
    /\ loads' = [loads EXCEPT ![l].done = TRUE, ![l].pcL = "end",
                              ![l].final = tree[loads[l].node].children]
    /\ UNCHANGED <<tree, drawn, episodeMap, episodeMapMutex, crashed>>
    /\ UNCHANGED <<resVars, pureVars>>

\* addSeasons: seasons := getSeasons()
AddSeasonsFetch(l) ==
    /\ ~crashed
    /\ loads[l].kind = "allSeasons" /\ loads[l].pcL = "start"
    /\ \E seasons \in getSeasons :
        loads' = [loads EXCEPT ![l].results = seasons.Seasons,
                               ![l].idx = 1, ![l].pcL = "attach"]
    /\ UNCHANGED <<tree, drawn, episodeMap, episodeMapMutex, crashed>>
    /\ UNCHANGED <<resVars, pureVars>>

\* addSeasons, one iteration: a node per season, attached to the parent
AddSeasonsAttach(l) ==
    /\ ~crashed
    /\ loads[l].kind = "allSeasons" /\ loads[l].pcL = "attach"
    /\ loads[l].idx <= Len(loads[l].results)
    /\ LET s == loads[l].results[loads[l].idx]
           seasonNode == [NewTreeNode(s.Name) EXCEPT
                            !.ref = [kind |-> "season", rec |-> s]]
       IN  tree' = (s.Name :> seasonNode) @@
                   [tree EXCEPT ![loads[l].node].children = Append(@, ChildRef(s.Name))]
    /\ loads' = [loads EXCEPT ![l].idx = @ + 1, ![l].touched = TRUE]
    /\ UNCHANGED <<drawn, episodeMap, episodeMapMutex, crashed>>
    /\ UNCHANGED <<resVars, pureVars>>

\* parentNode.SetExpanded(true); node.SetReference(seasons); done = true
AddSeasonsFinish(l) ==
    /\ ~crashed
    /\ loads[l].kind = "allSeasons" /\ loads[l].pcL = "attach"
    /\ loads[l].idx > Len(loads[l].results)
    /\ tree' = [tree EXCEPT
            ![loads[l].node].expanded = TRUE,
            ![loads[l].node].ref = [kind |-> "allSeasons", seasons |-> loads[l].results]]
    /\ loads' = [loads EXCEPT ![l].done = TRUE, ![l].pcL = "end",
                              ![l].final = tree[loads[l].node].children]
    /\ UNCHANGED <<drawn, episodeMap, episodeMapMutex, crashed>>
    /\ UNCHANGED <<resVars, pureVars>>

(***************************************************************************)
(* Entity resolver: convertIDs, getDriverNames, getTeamNames.              *)
(***************************************************************************)
DriverPrefix == <<"/", "a", "p", "i", "/", "d", "r", "i", "v", "e", "r", "/">>
TeamPrefix == <<"/", "a", "p", "i", "/", "t", "e", "a", "m", "/">>

Driver1 == DriverPrefix \o <<"1">>
Driver2 == DriverPrefix \o <<"2">>
Team1 == TeamPrefix \o <<"t", "m", "1">>

\* getDriver / getTeam: the record of the catalog, or the zero value when the
\* request fails (as it does for a string that names no driver or team)
ZeroDriver == [DriverRacingnumber |-> 0, FirstName |-> <<>>, LastName |-> <<>>]
ZeroTeam == [Name |-> <<>>]
getDriver(id) ==
    {ZeroDriver} \cup
    (IF id = Driver1
     THEN {[DriverRacingnumber |-> 4, FirstName |-> <<"A">>, LastName |-> <<"B">>]}
     ELSE IF id = Driver2
     THEN {[DriverRacingnumber |-> 44, FirstName |-> <<"C">>, LastName |-> <<"D">>]}
     ELSE {})
getTeam(id) ==
    {ZeroTeam} \cup (IF id = Team1 THEN {[Name |-> <<"T">>]} ELSE {})

\* the DriverUrls and TeamUrls slices of the episode behind content URL k
ListIds == (1..NumContentUrls) \X {"DriverUrls", "TeamUrls"}
CatalogList(L) ==
    IF L[2] = "DriverUrls"
    THEN (IF L[1] % 2 = 1 THEN <<Driver2, Driver1>> ELSE <<>>)
    ELSE (IF L[1] % 2 = 1 THEN <<Team1>> ELSE <<>>)

\* strconv.Itoa of a number that is not negative
DigitChar(d) == CharTable[Code("0") + d]
RECURSIVE Itoa(_)
Itoa(n) == IF n >= 10 THEN Append(Itoa(n \div 10), DigitChar(n % 10))
           ELSE <<DigitChar(n)>>

addNumberToName_NoPad(number, name) ==
    <<"(">> \o Itoa(number) \o <<")", " ">> \o name

addNumberToName(number, name) ==
    IF number >= 10 THEN <<"(">> \o Itoa(number) \o <<")", " ">> \o name
    ELSE <<" ", "(">> \o Itoa(number) \o <<")", " ">> \o name

\* the display name a worker stores for the record it holds
DisplayName(kind, rec) ==
    IF kind = "driver"
    THEN addNumberToName(rec.DriverRacingnumber,
                         rec.FirstName \o <<" ">> \o rec.LastName)
    ELSE rec.Name

\* sort.Strings: ascending byte order (an insertion sort for short slices)
RECURSIVE InsertString(_, _)
InsertString(s, j) ==
    IF j > 1 /\ StrLess(s[j], s[j - 1])
    THEN InsertString(Swap(s, j, j - 1), j - 1)
    ELSE s

RECURSIVE SortStringsFrom(_, _)
SortStringsFrom(s, i) ==
    IF i > Len(s) THEN s ELSE SortStringsFrom(InsertString(s, i), i + 1)

SortStrings(s) == SortStringsFrom(s, 2)

HasPrefix(str, n, prefix) == Len(str) >= n /\ SubSeq(str, 1, n) = prefix

\* convertIDs: which resolver the first line selects
ConvertKind(ls) ==
    IF Len(ls) < 1 THEN "none"
    ELSE IF Len(ls[1]) > 12 /\ HasPrefix(ls[1], 12, DriverPrefix) THEN "driver"
    ELSE IF Len(ls[1]) > 12 /\ HasPrefix(ls[1], 10, TeamPrefix) THEN "team"
    ELSE "none"

CallSlots == 1..MaxCalls
IdleNameWorker == [pc |-> "idle", ok |-> FALSE, rec |-> <<>>]
\* input: the slice as the caller passed it
IdleCall ==
    [list |-> <<>>, kind |-> "", pc |-> "idle", wg |-> 0, workers |-> <<>>,
     input |-> <<>>]

\* a fillTableFromSlices goroutine: its place, the row it works on, its
\* aborted flag, its abort-sender goroutine and the fill that took its signal
IdleFill ==
    [pc |-> "idle", ep |-> 0, row |-> 0, aborted |-> FALSE, sender |-> "none",
     takenBy |-> 0]

CallFree(c) == calls[c].pc = "idle"
TakesCall(c) == CallFree(c) /\ \A d \in CallSlots : CallFree(d) => c <= d

\* the episode nodes of the category: direct children and children of year nodes
RECURSIVE Flatten(_)
Flatten(kids) ==
    IF kids = <<>> THEN <<>>
    ELSE (IF Head(kids).kind = "year" THEN Head(kids).kids ELSE <<Head(kids)>>)
         \o Flatten(Tail(kids))

EpisodeNodes == Flatten(tree["category"].children)

\* the cursor can rest on a node of the episode whose slice L is
OnTree(L) ==
    \E k \in 1..Len(EpisodeNodes) :
        EpisodeNodes[k].ref = CatalogEpisode(ContentUrls[L[1]])

\* convertIDs on a slice that names neither drivers nor teams: returned as it is
ConvertIDsUnchanged(L) ==
    /\ ~crashed
    /\ OnTree(L)
    /\ ConvertKind(lines[L]) = "none"
    /\ UNCHANGED <<treeVars, resVars, pureVars>>

\* the worker goroutines of the running calls
RECURSIVE SumWorkers(_)
SumWorkers(c) == IF c = 0 THEN 0 ELSE SumWorkers(c - 1) + Len(calls[c].workers)
LiveWorkers == SumWorkers(MaxCalls)

\* convertIDs -> getDriverNames / getTeamNames: wg.Add(len(lines)) and one
\* goroutine per line
GetNamesStart(L, kind) ==
    /\ ~crashed
    /\ OnTree(L)
    /\ ConvertKind(lines[L]) = kind
    /\ LiveWorkers + Len(lines[L]) <= MaxWorkers
    /\ \E c \in CallSlots :
        /\ TakesCall(c)
        /\ calls' = [calls EXCEPT ![c] =
                [list |-> L, kind |-> kind, pc |-> "wait", wg |-> Len(lines[L]),
                 input |-> lines[L],
                 workers |-> [j \in 1..Len(lines[L]) |->
                                [IdleNameWorker EXCEPT !.pc = "rlock"]]]]
    /\ UNCHANGED <<driverMap, driverMapMutex, teamMap, teamMapMutex, lines, fetches>>
    /\ UNCHANGED <<treeVars, pureVars>>

GetDriverNamesStart(L) == GetNamesStart(L, "driver")
GetTeamNamesStart(L) == GetNamesStart(L, "team")

NameWorkerAt(c, j, pc) ==
    /\ ~crashed
    /\ j \in DOMAIN calls[c].workers
    /\ calls[c].workers[j].pc = pc

MapOf(kind) == IF kind = "driver" THEN driverMap ELSE teamMap
MutexOf(kind) == IF kind = "driver" THEN driverMapMutex ELSE teamMapMutex
\* lines[j] as the worker reads it at this moment
Line(c, j) == lines[calls[c].list][j]

SetMutex(kind, m) ==
    IF kind = "driver"
    THEN driverMapMutex' = m /\ UNCHANGED teamMapMutex
    ELSE teamMapMutex' = m /\ UNCHANGED driverMapMutex

\* driverMapMutex.RLock() / teamMapMutex.RLock()
NameRLock(c, j) ==
    /\ NameWorkerAt(c, j, "rlock")
    /\ CanRLock(MutexOf(calls[c].kind))
    /\ SetMutex(calls[c].kind, [MutexOf(calls[c].kind) EXCEPT !.readers = @ + 1])
    /\ calls' = [calls EXCEPT ![c].workers[j].pc = "read"]
    /\ UNCHANGED <<driverMap, teamMap, lines, fetches, treeVars, pureVars>>

\* a worker that fetches whatever its cache read found
AfterRead_AlwaysFetch(ok) == "fetch"
\* the step a worker takes after its cache read
AfterRead(ok) == IF ok THEN "name" ELSE "fetch"

\* driver, ok := driverMap[lines[j]]; driverMapMutex.RUnlock()
NameRead(c, j) ==
    /\ NameWorkerAt(c, j, "read")
    /\ SetMutex(calls[c].kind, [MutexOf(calls[c].kind) EXCEPT !.readers = @ - 1])
    /\ LET m  == MapOf(calls[c].kind)
           ok == Line(c, j) \in DOMAIN m
       IN  calls' = [calls EXCEPT
                ![c].workers[j].ok = ok,
                ![c].workers[j].rec = IF ok THEN m[Line(c, j)] ELSE @,
                ![c].workers[j].pc = AfterRead(ok)]
    /\ UNCHANGED <<driverMap, teamMap, lines, fetches, treeVars, pureVars>>

\* driver = getDriver(lines[j]) / team = getTeam(lines[j])
NameFetch(c, j) ==
    /\ NameWorkerAt(c, j, "fetch")
    /\ \E rec \in (IF calls[c].kind = "driver" THEN getDriver(Line(c, j))
                   ELSE getTeam(Line(c, j))) :
        calls' = [calls EXCEPT ![c].workers[j].rec = rec,
                               ![c].workers[j].pc = "lock"]
    /\ fetches' = IF Line(c, j) \in DOMAIN fetches
                  THEN [fetches EXCEPT ![Line(c, j)] = @ + 1]
                  ELSE (Line(c, j) :> 1) @@ fetches
    /\ UNCHANGED <<driverMap, driverMapMutex, teamMap, teamMapMutex, lines>>
    /\ UNCHANGED <<treeVars, pureVars>>

\* driverMapMutex.Lock() / teamMapMutex.Lock()
NameLock(c, j) ==
    /\ NameWorkerAt(c, j, "lock")
    /\ CanLock(MutexOf(calls[c].kind))
    /\ SetMutex(calls[c].kind, [MutexOf(calls[c].kind) EXCEPT !.writer = TRUE])
    /\ calls' = [calls EXCEPT ![c].workers[j].pc = "write"]
    /\ UNCHANGED <<driverMap, teamMap, lines, fetches, treeVars, pureVars>>

\* driverMap[lines[j]] = driver; driverMapMutex.Unlock()
NameWrite(c, j) ==
    /\ NameWorkerAt(c, j, "write")
    /\ SetMutex(calls[c].kind, [MutexOf(calls[c].kind) EXCEPT !.writer = FALSE])
    /\ IF calls[c].kind = "driver"
       THEN /\ driverMap' = (Line(c, j) :> calls[c].workers[j].rec) @@ driverMap
            /\ UNCHANGED teamMap
       ELSE /\ teamMap' = (Line(c, j) :> calls[c].workers[j].rec) @@ teamMap
            /\ UNCHANGED driverMap
    /\ calls' = [calls EXCEPT ![c].workers[j].pc = "name"]
    /\ UNCHANGED <<lines, fetches, treeVars, pureVars>>

\* lines[j] = name; wg.Done()
NameStore(c, j) ==
    /\ NameWorkerAt(c, j, "name")
    /\ lines' = [lines EXCEPT ![calls[c].list][j] =
                    DisplayName(calls[c].kind, calls[c].workers[j].rec)]
    /\ calls' = [calls EXCEPT ![c].wg = @ - 1,
                              ![c].workers[j] = [IdleNameWorker EXCEPT !.pc = "finished"]]
    /\ UNCHANGED <<driverMap, driverMapMutex, teamMap, teamMapMutex, fetches>>
    /\ UNCHANGED <<treeVars, pureVars>>

\* wg.Wait(); sort.Strings(lines); return lines
GetNamesReturn(c) ==
    /\ ~crashed
    /\ calls[c].pc = "wait" /\ calls[c].wg = 0
    /\ lines' = [lines EXCEPT ![calls[c].list] = SortStrings(@)]
    /\ calls' = [calls EXCEPT ![c] = IdleCall]
    /\ UNCHANGED <<driverMap, driverMapMutex, teamMap, teamMapMutex, fetches>>
    /\ UNCHANGED <<treeVars, pureVars>>

(***************************************************************************)
(* The info table: tree.SetChangedFunc and fillTableFromSlices.            *)
(***************************************************************************)
\* the rows of an episode whose values convertIDs can resolve; the text rows
\* before them are returned as they are, like an empty slice
Rows == <<"DriverUrls", "TeamUrls">>

\* the slot a new fill takes: every cursor move starts a new goroutine
TakesFill(f) == fills[f].pc = "idle" /\ \A g \in CallSlots : fills[g].pc = "idle" => f <= g

\* tree.SetChangedFunc on an episode node: go fillTableFromSlices(...)
FillStart(f, k) ==
    /\ ~crashed
    /\ OnTree(<<k, "DriverUrls">>)
    /\ TakesFill(f)
    /\ fills' = [fills EXCEPT ![f].pc = "select", ![f].ep = k]
    /\ UNCHANGED <<abortq, conv, named, wb, treeVars, resVars, yrVars, orgVars, cmdVars, pool>>

\* select { case <-abort: default: }: takes the signal of the sender that
\* has waited longest, if a sender waits, and that sender sets its aborted
\* flag; then aborted := false; go func() { abort <- true; aborted = true }();
\* infoTable.Clear(); rowIndex := 0
FillSelect(f) ==
    /\ fills[f].pc = "select"
    /\ IF abortq # <<>>
       THEN /\ fills' = [fills EXCEPT ![Head(abortq)].sender = "done",
                                      ![Head(abortq)].aborted = TRUE,
                                      ![Head(abortq)].takenBy = f,
                                      ![f].pc = "convert", ![f].row = 1,
                                      ![f].sender = "ready"]
            /\ abortq' = Tail(abortq)
       ELSE /\ fills' = [fills EXCEPT ![f].pc = "convert", ![f].row = 1,
                                      ![f].sender = "ready"]
            /\ UNCHANGED abortq
    /\ UNCHANGED <<conv, named, wb, treeVars, resVars, yrVars, orgVars, cmdVars, pool>>

\* abort <- true: the sender goroutine of the fill blocks on the channel
SenderSend(f) ==
    /\ fills[f].sender = "ready"
    /\ fills' = [fills EXCEPT ![f].sender = "blocked"]
    /\ abortq' = Append(abortq, f)
    /\ UNCHANGED <<conv, named, wb, treeVars, resVars, yrVars, orgVars, cmdVars, pool>>

\* the slice values[index] of the row the fill works on
RowList(f) == <<fills[f].ep, Rows[fills[f].row]>>

\* if aborted { return }; otherwise the row is written and drawn; after the
\* last row infoTable.ScrollToBeginning()
AfterConvert(fill) ==
    IF fill.aborted THEN [fill EXCEPT !.pc = "end"]
    ELSE [fill EXCEPT !.row = @ + 1,
                      !.pc = IF fill.row = Len(Rows) THEN "end" ELSE "convert"]

\* lines := convertIDs(values[index]) on a slice it returns as it is, and
\* the rest of the round of the loop
FillUnchanged(f) ==
    /\ ~crashed
    /\ fills[f].pc = "convert"
    /\ ConvertKind(lines[RowList(f)]) = "none"
    /\ fills' = [fills EXCEPT ![f] = AfterConvert(@)]
    /\ UNCHANGED <<abortq, conv, named, wb, treeVars, resVars, yrVars, orgVars, cmdVars, pool>>

\* lines := convertIDs(values[index]) calls getDriverNames / getTeamNames:
\* wg.Add(len(lines)) and one goroutine per line
FillConvert(f) ==
    /\ ~crashed
    /\ fills[f].pc = "convert"
    /\ ConvertKind(lines[RowList(f)]) # "none"
    /\ CallFree(f)
    /\ fills' = [fills EXCEPT ![f].pc = "call"]
    /\ calls' = [calls EXCEPT ![f] =
            [list |-> RowList(f), kind |-> ConvertKind(lines[RowList(f)]),
             pc |-> "wait", wg |-> Len(lines[RowList(f)]),
             input |-> lines[RowList(f)],
             workers |-> [j \in 1..Len(lines[RowList(f)]) |->
                            [IdleNameWorker EXCEPT !.pc = "rlock"]]]]
    /\ UNCHANGED <<driverMap, driverMapMutex, teamMap, teamMapMutex, lines, fetches>>
    /\ UNCHANGED <<abortq, conv, named, wb, treeVars, yrVars, orgVars, cmdVars, pool>>

\* getDriverNames / getTeamNames has returned to the fill: the rest of the
\* round of the loop
FillRow(f) ==
    /\ fills[f].pc = "call" /\ CallFree(f)
    /\ fills' = [fills EXCEPT ![f] = AfterConvert(@)]
    /\ UNCHANGED <<abortq, conv, named, wb, treeVars, resVars, yrVars, orgVars, cmdVars, pool>>

(***************************************************************************)
(* Playback nodes: the custom command dispatch, "Play with MPV",           *)
(* "Download .m3u8", "GET URL", and monitorCommand.                        *)
(***************************************************************************)
\* the parts of a command token: plain text and the two placeholders
Lit == <<"mpv">>
FileVar == <<"$file">>
UrlVar == <<"$url">>

\* getPlayableURL(epID): the playable URL of the episode
getPlayableURL(epID) == <<"url", epID>>

\* downloadAsset(url, title): the local path of the n-th download
downloadAsset(url, title, n) == <<"path", n>>

\* the command templates of the configuration: each a list of tokens, each
\* token a list of parts
CommandPool ==
    { <<>>,
      << <<Lit>>, <<UrlVar>> >>,
      << <<Lit>>, <<FileVar, Lit, FileVar>>, <<UrlVar, FileVar>> >> }

Watchphrases == {"", "Video"}

\* the custom playback options (type command) a node can carry;
\* addPlaybackNodes makes a node only for len(com.Commands) > 0
CustomOptions ==
    { [Commands |-> c, Watchphrase |-> w, CommandToWatch |-> k] :
        c \in SeqsUpTo(CommandPool, MaxCommands) \ {<<>>},
        w \in Watchphrases,
        k \in -1..MaxCommands }

NoOptions == [Commands |-> <<>>, Watchphrase |-> "", CommandToWatch |-> 0]

PlayText == <<"Play with MPV">>
DownloadText == <<"Download .m3u8">>
GetUrlText == <<"GET URL">>
CustomText == <<"custom">>

\* the nodes addPlaybackNodes adds under an episode
PlaybackNode(kind, text) == [kind |-> kind, text |-> text, color |-> "White"]

\* strings.Contains(s, "$file")
ContainsFile(s) == \E p \in 1..Len(s) : s[p] = FileVar

\* strings.Replace(s, old, new, -1)
Replace(s, old, new) == [p \in 1..Len(s) |-> IF s[p] = old THEN new ELSE s[p]]

\* the state of one run of the handler on a custom node
NewDispatch(url) ==
    [url |-> url, filepath |-> <<>>, fileLoaded |-> FALSE,
     remote |-> << [fn |-> "getPlayableURL", thread |-> "ui"] >>,
     started |-> <<>>, logged |-> {}, spawned |-> <<>>, color |-> "White"]

\* the downloadAsset calls of one run of the handler
Downloads(d) ==
    Cardinality({c \in 1..Len(d.remote) : d.remote[c].fn = "downloadAsset"})

\* if !fileLoaded { filepath = downloadAsset(url, context.Title); fileLoaded = true }
LoadFile_NoFlag(d) ==
    IF d.fileLoaded THEN d
    ELSE [d EXCEPT !.filepath = downloadAsset(d.url, CustomText, Downloads(d) + 1),
                   !.remote = Append(@, [fn |-> "downloadAsset", thread |-> "ui"])]
LoadFile(d) ==
    IF d.fileLoaded THEN d
    ELSE [d EXCEPT !.filepath = downloadAsset(d.url, CustomText, Downloads(d) + 1),
                   !.fileLoaded = TRUE,
                   !.remote = Append(@, [fn |-> "downloadAsset", thread |-> "ui"])]

\* for x, s := range tmpCommand: the substitution of the tokens from x on
RECURSIVE ReplaceTokens(_, _, _)
ReplaceTokens(d, tmpCommand, x) ==
    IF x > Len(tmpCommand) THEN [d |-> d, tmpCommand |-> tmpCommand]
    ELSE LET s == tmpCommand[x]
             d1 == IF ContainsFile(s) THEN LoadFile(d) ELSE d
             s1 == IF ContainsFile(s) THEN Replace(s, FileVar, d1.filepath) ELSE s
             s2 == Replace(s1, UrlVar, d1.url)
         IN  ReplaceTokens(d1, [tmpCommand EXCEPT ![x] = s2], x + 1)

\* the monitor flag of the handler
MonitorFlag(com) ==
    /\ com.Watchphrase # ""
    /\ com.CommandToWatch >= 0
    /\ com.CommandToWatch < Len(com.Commands)

\* for j := range com.Commands, from command j on (j counts from 0 as in the
\* source); fails[j] tells whether cmd.Start() returns an error
RECURSIVE RunCommands(_, _, _, _)
RunCommands(d, com, fails, j) ==
    IF j >= Len(com.Commands) THEN d
    ELSE IF Len(com.Commands[j + 1]) = 0 THEN RunCommands(d, com, fails, j + 1)
    ELSE LET r == ReplaceTokens(d, com.Commands[j + 1], 1)
             d1 == [r.d EXCEPT
                      !.started = Append(@, [j |-> j, argv |-> r.tmpCommand,
                                             failed |-> fails[j + 1]]),
                      !.logged = IF fails[j + 1] THEN @ \cup {j} ELSE @]
             d2 == IF MonitorFlag(com) /\ com.CommandToWatch = j
                   THEN [d1 EXCEPT !.spawned = Append(@, j)]
                   ELSE d1
         IN  RunCommands(d2, com, fails, j + 1)

\* the outcomes of cmd.Start() over the commands: an empty command is never
\* started
StartOutcomes(com) ==
    { f \in [1..Len(com.Commands) -> BOOLEAN] :
        \A j \in 1..Len(com.Commands) : Len(com.Commands[j]) = 0 => ~f[j] }

\* go monitorCommand(node, watchphrase, stdoutIn)
NewMonitor(k, j, failed) ==
    [dispatch |-> k, j |-> j, failed |-> failed, pcB |-> "getText",
     done |-> FALSE, originalText |-> <<>>, read |-> 0, cause |-> "none"]

\* reference == nil || node.GetText() == "loading...": the handler returns.
\* A playback node has no children.
CanDispatch == pnode.text # Loading /\ Len(dispatched) < MaxDispatches

\* the handler on a node with a nodeContext reference
DispatchCustom ==
    /\ CanDispatch
    /\ pnode.kind = "custom"
    /\ \E fails \in StartOutcomes(options) :
        LET k == Len(dispatched) + 1
            d == RunCommands(NewDispatch(getPlayableURL("ep")), options, fails, 0)
            d1 == IF ~MonitorFlag(options) THEN [d EXCEPT !.color = "Blue"]
                  ELSE [d EXCEPT !.color = pnode.color]
        IN  /\ dispatched' = Append(dispatched, d1)
            /\ pnode' = [pnode EXCEPT !.color = d1.color]
            /\ monitors' = monitors \o
                    [s \in 1..Len(d.spawned) |->
                        NewMonitor(k, d.spawned[s], fails[d.spawned[s] + 1])]
    /\ UNCHANGED <<options, yrVars, orgVars, pool, treeVars, resVars, restVars>>

\* node.GetText() == "Play with MPV"
DispatchPlay ==
    /\ CanDispatch
    /\ pnode.kind = "string" /\ pnode.text = PlayText
    /\ \E failed \in BOOLEAN :
        LET k == Len(dispatched) + 1
            d == [NewDispatch(getPlayableURL("ep")) EXCEPT
                    !.started = << [j |-> 0, argv |-> << <<Lit>>, <<getPlayableURL("ep")>> >>,
                                    failed |-> failed] >>,
                    !.logged = IF failed THEN {0} ELSE {},
                    !.spawned = <<0>>,
                    !.color = pnode.color]
        IN  /\ dispatched' = Append(dispatched, d)
            /\ monitors' = Append(monitors, NewMonitor(k, 0, failed))
    /\ UNCHANGED <<options, pnode, yrVars, orgVars, pool, treeVars, resVars, restVars>>

\* node.GetText() == "Download .m3u8"
DispatchDownload ==
    /\ CanDispatch
    /\ pnode.kind = "[]string" /\ pnode.text = DownloadText
    /\ LET d == [NewDispatch(getPlayableURL("ep")) EXCEPT
                    !.filepath = downloadAsset(getPlayableURL("ep"), CustomText, 1),
                    !.remote = Append(@, [fn |-> "downloadAsset", thread |-> "ui"]),
                    !.color = "Blue"]
       IN  /\ dispatched' = Append(dispatched, d)
           /\ pnode' = [pnode EXCEPT !.color = "Blue"]
    /\ UNCHANGED <<options, monitors, yrVars, orgVars, pool, treeVars, resVars, restVars>>

\* node.GetText() == "GET URL"
DispatchGetUrl ==
    /\ CanDispatch
    /\ pnode.kind = "string" /\ pnode.text = GetUrlText
    /\ dispatched' = Append(dispatched,
            [NewDispatch(getPlayableURL("ep")) EXCEPT !.color = pnode.color])
    /\ UNCHANGED <<options, pnode, monitors, yrVars, orgVars, pool, treeVars, resVars, restVars>>

\* the selection of a node that shows "loading..." does nothing
DispatchIgnored ==
    /\ pnode.text = Loading
    /\ UNCHANGED vars

\* the scanner goroutine of monitorCommand reads a line; it leaves the loop
\* and sets done when the line contains the watch-phrase
ScanLine(m, hit) ==
    /\ m \in 1..Len(monitors)
    /\ monitors[m].cause = "none" /\ ~monitors[m].failed
    /\ monitors[m].read < MaxLines
    /\ monitors' = [monitors EXCEPT ![m].read = @ + 1,
                                    ![m].cause = IF hit THEN "phrase" ELSE @,
                                    ![m].done = hit]
    /\ UNCHANGED <<options, pnode, dispatched, yrVars, orgVars, pool, treeVars, resVars, restVars>>

\* scanner.Scan() returns false: the stream is closed (at once when the
\* process did not start); done = true
ScanClosed(m) ==
    /\ m \in 1..Len(monitors)
    /\ monitors[m].cause = "none"
    /\ monitors' = [monitors EXCEPT ![m].cause = "closed", ![m].done = TRUE]
    /\ UNCHANGED <<options, pnode, dispatched, yrVars, orgVars, pool, treeVars, resVars, restVars>>

\* blinkNode(node, &done, tcell.ColorWhite) of a monitor:
\* originalText := node.GetText()
MonitorGetText(m) ==
    /\ m \in 1..Len(monitors)
    /\ monitors[m].pcB = "getText"
    /\ monitors' = [monitors EXCEPT ![m].originalText = pnode.text,
                                    ![m].pcB = "setText"]
    /\ UNCHANGED <<options, pnode, dispatched, yrVars, orgVars, pool, treeVars, resVars, restVars>>

\* node.SetText("loading...")
MonitorSetText(m) ==
    /\ m \in 1..Len(monitors)
    /\ monitors[m].pcB = "setText"
    /\ pnode' = [pnode EXCEPT !.text = Loading]
    /\ monitors' = [monitors EXCEPT ![m].pcB = "loop"]
    /\ UNCHANGED <<options, dispatched, yrVars, orgVars, pool, treeVars, resVars, restVars>>

\* for !*done
LoopExits_Always(done) == TRUE
LoopExits(done) == done

\* the first half of a blink
MonitorBlinkOn(m) ==
    /\ m \in 1..Len(monitors)
    /\ monitors[m].pcB = "loop" /\ ~LoopExits(monitors[m].done)
    /\ pnode' = [pnode EXCEPT !.color = "Blue"]
    /\ monitors' = [monitors EXCEPT ![m].pcB = "off"]
    /\ UNCHANGED <<options, dispatched, yrVars, orgVars, pool, treeVars, resVars, restVars>>

\* the second half of a blink
MonitorBlinkOff(m) ==
    /\ m \in 1..Len(monitors)
    /\ monitors[m].pcB = "off"
    /\ pnode' = [pnode EXCEPT !.color = "White"]
    /\ monitors' = [monitors EXCEPT ![m].pcB = "loop"]
    /\ UNCHANGED <<options, dispatched, yrVars, orgVars, pool, treeVars, resVars, restVars>>

\* node.SetText(originalText); app.Draw()
MonitorBlinkEnd(m) ==
    /\ m \in 1..Len(monitors)
    /\ monitors[m].pcB = "loop" /\ LoopExits(monitors[m].done)
    /\ pnode' = [pnode EXCEPT !.text = monitors[m].originalText]
    /\ monitors' = [monitors EXCEPT ![m].pcB = "end"]
    /\ UNCHANGED <<options, dispatched, yrVars, orgVars, pool, treeVars, resVars, restVars>>

\* the busy indicator of monitor m
MonitorBlink(m) ==
    \/ MonitorGetText(m)
    \/ MonitorSetText(m)
    \/ MonitorBlinkOn(m)
    \/ MonitorBlinkOff(m)
    \/ MonitorBlinkEnd(m)

(***************************************************************************)
(* The worker pool of addEpisodes on a category of many content URLs: the   *)
(* spawn loop and the slots of the guard channel.                           *)
(***************************************************************************)
\* guard <- struct{}{}; go func(i int) {...}(i): the next worker takes a slot
PoolSpawn ==
    /\ pool.spawn < pool.urls
    /\ GuardHasRoom(pool.guard)
    /\ pool' = [pool EXCEPT !.spawn = @ + 1, !.guard = @ + 1]
    /\ UNCHANGED <<yrVars, orgVars, cmdVars, treeVars, resVars, restVars>>

\* <-guard: a started worker gives its slot back
PoolRelease ==
    /\ pool.guard > 0
    /\ pool' = [pool EXCEPT !.guard = @ - 1]
    /\ UNCHANGED <<yrVars, orgVars, cmdVars, treeVars, resVars, restVars>>

(***************************************************************************)
(* The organizer on one input: the year of one source identifier, and the  *)
(* ordering and grouping of one episode list.                              *)
(***************************************************************************)
\* what addEpisodes derives from the source identifier of one episode: the
\* label of its bucket (the attach loop) and the year the comparator orders it
\* by; ep.DataSourceID[:4] panics on a short identifier
DeriveYear ==
    /\ yrPc = "idle"
    /\ LET ep == [Title |-> <<>>, DataSourceID |-> yrInput]
       IN  IF SlicePanics(ep)
           THEN yrPc' = "panic" /\ yrOut' = <<>>
           ELSE /\ yrPc' = "done"
                /\ yrOut' = [dated |-> HasYearRaceID(ep),
                             label |-> BucketYear(ep),
                             order |-> getYearAndRace(yrInput)[1],
                             derived |-> getYearAndRaceErr(yrInput)]
    /\ UNCHANGED <<yrInput, orgVars, cmdVars, pool, treeVars, resVars, restVars>>

\* the attach loop and the loop over skippedEpisodes on a sorted slice: the
\* children of the target
RECURSIVE AttachAll(_, _, _)
AttachAll(kids, skipped, eps) ==
    IF eps = <<>> THEN kids \o skipped
    ELSE IF HasYearRaceID(Head(eps))
    THEN AttachAll(AttachDated(kids, Head(eps)), skipped, Tail(eps))
    ELSE AttachAll(kids, Append(skipped, EpisodeNode(Head(eps))), Tail(eps))

\* the part of addEpisodes after wg.Wait(), on the episodes the workers left
Organize ==
    /\ orgPc = "idle"
    /\ IF SortPanics(orgInput) \/ \E k \in 1..Len(orgInput) : SlicePanics(orgInput[k])
       THEN orgPc' = "panic" /\ orgKids' = <<>>
       ELSE /\ orgPc' = "done"
            /\ orgKids' = AttachAll(<<>>, <<>>, SortEpisodes(orgInput))
    /\ UNCHANGED <<orgInput, yrVars, cmdVars, pool, treeVars, resVars, restVars>>

(***************************************************************************)
(* convertIDs and addNumberToName on their own.                            *)
(***************************************************************************)
\* the strings a slice handed to convertIDs holds: identifiers of drivers
\* and teams of several lengths, a display name, a text
ConvPool ==
    {Driver1, DriverPrefix, Team1, TeamPrefix \o <<"7">>, TeamPrefix \o <<"1", "2">>,
     <<"(", "4", ")", " ", "A">>, <<"a">>, <<>>}

IdleConv == [input |-> <<>>, pc |-> "idle", kind |-> "none"]

\* convertIDs(lines): the resolver the slice is handed to
Convert ==
    /\ conv.pc = "call"
    /\ conv' = [conv EXCEPT !.pc = "done", !.kind = ConvertKind(conv.input)]
    /\ UNCHANGED <<named, wb, fillVars, treeVars, resVars, yrVars, orgVars, cmdVars, pool>>

IdleNamed == [driver |-> ZeroDriver, pc |-> "idle", out |-> <<>>]

\* name := addNumberToName(driver.DriverRacingnumber,
\*                         driver.FirstName+" "+driver.LastName)
NameDriver ==
    /\ named.pc = "call"
    /\ named' = [named EXCEPT !.pc = "done", !.out = DisplayName("driver", named.driver)]
    /\ UNCHANGED <<conv, wb, fillVars, treeVars, resVars, yrVars, orgVars, cmdVars, pool>>

(***************************************************************************)
(* withBlink and viewerSession.blinkNode.                                  *)
(***************************************************************************)
Blinks == 1..MaxBlinks

IdleBlink ==
    [fn |-> "idle", blink |-> "idle", after |-> FALSE, afterRan |-> FALSE,
     originalText |-> <<>>, originalColor |-> "", color1 |-> "", color2 |-> ""]

IdleNode == [text |-> <<"node">>, color |-> "white", inv |-> [i \in Blinks |-> IdleBlink]]

\* the function withBlink returns is called: done := make(chan struct{}) and
\* the two goroutines start; after is nil or a function
WithBlink(i, after) ==
    /\ wb.inv[i].fn = "idle"
    /\ \A h \in Blinks : wb.inv[h].fn = "idle" => i <= h
    /\ wb' = [wb EXCEPT !.inv[i].fn = "running", !.inv[i].blink = "start",
                        !.inv[i].after = after]
    /\ UNCHANGED <<conv, named, fillVars, treeVars, resVars, yrVars, orgVars, cmdVars, pool>>

\* fn() returns: the goroutine reaches done <- struct{}{}
FnReturns(i) ==
    /\ wb.inv[i].fn = "running"
    /\ wb' = [wb EXCEPT !.inv[i].fn = "send"]
    /\ UNCHANGED <<conv, named, fillVars, treeVars, resVars, yrVars, orgVars, cmdVars, pool>>

\* blinkNode: originalText, originalColor, color1, color2,
\* node.SetText("loading..."), the ticker
BlinkBegin(i) ==
    /\ wb.inv[i].blink = "start"
    /\ wb' = [wb EXCEPT !.text = Loading,
                        !.inv[i].blink = "loop",
                        !.inv[i].originalText = wb.text,
                        !.inv[i].originalColor = wb.color,
                        !.inv[i].color1 = wb.color,
                        !.inv[i].color2 = "loading"]
    /\ UNCHANGED <<conv, named, fillVars, treeVars, resVars, yrVars, orgVars, cmdVars, pool>>

\* case <-ticker.C: node.SetColor(color2) and the two colors change places
BlinkTick(i) ==
    /\ wb.inv[i].blink = "loop"
    /\ wb' = [wb EXCEPT !.color = wb.inv[i].color2,
                        !.inv[i].color1 = wb.inv[i].color2,
                        !.inv[i].color2 = wb.inv[i].color1]
    /\ UNCHANGED <<conv, named, fillVars, treeVars, resVars, yrVars, orgVars, cmdVars, pool>>

\* case <-done: possible when the other goroutine waits at its send
DoneReady_Always(i) == TRUE
DoneReady(i) == wb.inv[i].fn = "send"

\* case <-done: the send of the other goroutine completes;
\* node.SetText(originalText); node.SetColor(originalColor); return
BlinkDone(i) ==
    /\ wb.inv[i].blink = "loop"
    /\ DoneReady(i)
    /\ wb' = [wb EXCEPT !.text = wb.inv[i].originalText,
                        !.color = wb.inv[i].originalColor,
                        !.inv[i].fn = IF wb.inv[i].fn = "send" THEN "finished" ELSE @,
                        !.inv[i].blink = "restored"]
    /\ UNCHANGED <<conv, named, fillVars, treeVars, resVars, yrVars, orgVars, cmdVars, pool>>

\* if after != nil { after() }, and the goroutine ends
BlinkAfter(i) ==
    /\ wb.inv[i].blink = "restored"
    /\ wb' = [wb EXCEPT !.inv[i].blink = "finished",
                        !.inv[i].afterRan = wb.inv[i].after]
    /\ UNCHANGED <<conv, named, fillVars, treeVars, resVars, yrVars, orgVars, cmdVars, pool>>

(***************************************************************************)
(* The tree: specifications.                                               *)
(***************************************************************************)
TreeInit ==
    /\ tree = ("category" :> CategoryNode) @@ ("full" :> FullSessionsNode)
    /\ loads = [l \in 1..MaxLoads |-> IdleLoad]
    /\ drawn = [l \in 1..MaxLoads |-> {}]
    /\ episodeMap = <<>>
    /\ episodeMapMutex = UnlockedMutex
    /\ crashed = FALSE
    /\ driverMap = <<>> /\ driverMapMutex = UnlockedMutex
    /\ teamMap = <<>> /\ teamMapMutex = UnlockedMutex
    /\ lines = [L \in ListIds |-> CatalogList(L)]
    /\ calls = [c \in CallSlots |-> IdleCall]
    /\ fetches = <<>>
    /\ yrInput = <<>> /\ yrPc = "idle" /\ yrOut = <<>>
    /\ orgInput = <<>> /\ orgPc = "idle" /\ orgKids = <<>>
    /\ options = NoOptions /\ pnode = PlaybackNode("string", PlayText)
    /\ dispatched = <<>> /\ monitors = <<>>
    /\ fills = [f \in CallSlots |-> IdleFill] /\ abortq = <<>>
    /\ conv = IdleConv /\ named = IdleNamed /\ wb = IdleNode
    /\ pool = [urls |-> 0, spawn |-> 0, guard |-> 0]

\* the category is expanded: the loader and its fetch workers
LoadEpisodesNext ==
    \/ SelectCategory("category")
    \/ \E l \in Slots :
        \/ AddEpisodesStart(l)
        \/ SpawnEpisodeWorker(l)
        \/ \E i \in 1..NumContentUrls :
            \/ EpisodeRLock(l, i)
            \/ EpisodeRead(l, i)
            \/ EpisodeFetch(l, i)
            \/ EpisodeLock(l, i)
            \/ EpisodeWrite(l, i)
            \/ EpisodeAppendRead(l, i)
            \/ EpisodeAppendStore(l, i)
            \/ EpisodeRelease(l, i)
            \/ EpisodeDone(l, i)
        \/ AddEpisodesWait(l)
        \/ AddEpisodesSort(l)
        \/ AddEpisodesAttach(l)
        \/ AddEpisodesAttached(l)
        \/ AddEpisodesSkipped(l)
        \/ AddEpisodesFinish(l)

\* the user works on the category
CategoryNext ==
    \/ SelectIgnored("category")
    \/ SelectToggle("category")
    \/ \E l \in Slots :
        \/ BlinkGetText(l)
        \/ BlinkSetText(l)
        \/ BlinkOn(l)
        \/ BlinkOff(l)
        \/ BlinkEnd(l)
    \/ LoadEpisodesNext

SpecCategory == TreeInit /\ [][CategoryNext]_vars

WeekendNodes == {"full", "s1", "s2", "ev1", "ev2"}

\* the expansions of the race weekends: the loaders, their fetch workers and
\* the busy indicator
WeekendLoadNext ==
    \/ \E n \in WeekendNodes :
        \/ SelectAllSeasons(n)
        \/ SelectSeason(n)
        \/ SelectEvent(n)
    \/ \E l \in Slots :
        \/ BlinkGetText(l)
        \/ BlinkSetText(l)
        \/ BlinkOn(l)
        \/ BlinkOff(l)
        \/ BlinkEnd(l)
        \/ EventAfterBlink(l)
        \/ AddSeasonsFetch(l)
        \/ AddSeasonsAttach(l)
        \/ AddSeasonsFinish(l)
        \/ GetEventNodesStart(l)
        \/ GetSessionNodesStart(l)
        \/ \E m \in 1..2 :
            \/ EventWorker(l, m)
            \/ SessionWorkerGetSession(l, m)
            \/ SessionWorkerGetStreams(l, m)
        \/ FanOutWait(l)
        \/ SeasonAttach(l)
        \/ EventAttach(l)
        \/ FanOutFinish(l)

\* the user works on the race weekends
WeekendNext ==
    \/ \E n \in WeekendNodes :
        \/ SelectIgnored(n)
        \/ SelectToggle(n)
    \/ WeekendLoadNext

SpecWeekend == TreeInit /\ [][WeekendNext]_vars

\* every expansion the user can start: the category, "Full Race Weekends",
\* the seasons and the events
SpecExpand == TreeInit /\ [][LoadEpisodesNext \/ WeekendLoadNext]_vars

\* the user selects "Full Race Weekends", also while it is being expanded
ReloadNext ==
    \/ SelectAllSeasons("full")
    \/ SelectIgnored("full")
    \/ SelectToggle("full")
    \/ \E l \in Slots :
        \/ BlinkGetText(l)
        \/ BlinkSetText(l)
        \/ BlinkOn(l)
        \/ BlinkOff(l)
        \/ BlinkEnd(l)
        \/ AddSeasonsFetch(l)
        \/ AddSeasonsAttach(l)
        \/ AddSeasonsFinish(l)

ReloadInit ==
    /\ tree = ("category" :> CategoryNode) @@ ("full" :> FullSessionsNode)
    /\ loads = [l \in 1..MaxReloads |-> IdleLoad]
    /\ drawn = [l \in 1..MaxReloads |-> {}]
    /\ episodeMap = <<>>
    /\ episodeMapMutex = UnlockedMutex
    /\ crashed = FALSE
    /\ driverMap = <<>> /\ driverMapMutex = UnlockedMutex
    /\ teamMap = <<>> /\ teamMapMutex = UnlockedMutex
    /\ lines = [L \in ListIds |-> CatalogList(L)]
    /\ calls = [c \in CallSlots |-> IdleCall]
    /\ fetches = <<>>
    /\ yrInput = <<>> /\ yrPc = "idle" /\ yrOut = <<>>
    /\ orgInput = <<>> /\ orgPc = "idle" /\ orgKids = <<>>
    /\ options = NoOptions /\ pnode = PlaybackNode("string", PlayText)
    /\ dispatched = <<>> /\ monitors = <<>>
    /\ fills = [f \in CallSlots |-> IdleFill] /\ abortq = <<>>
    /\ conv = IdleConv /\ named = IdleNamed /\ wb = IdleNode
    /\ pool = [urls |-> 0, spawn |-> 0, guard |-> 0]

SpecReload == ReloadInit /\ [][ReloadNext]_vars

\* the cursor moves over the episodes of the category: the info table
\* resolves their driver and team identifiers
ResolveNext ==
    \/ \E L \in ListIds :
        \/ ConvertIDsUnchanged(L)
        \/ GetDriverNamesStart(L)
        \/ GetTeamNamesStart(L)
    \/ \E c \in CallSlots :
        \/ \E j \in 1..2 :
            \/ NameRLock(c, j)
            \/ NameRead(c, j)
            \/ NameFetch(c, j)
            \/ NameLock(c, j)
            \/ NameWrite(c, j)
            \/ NameStore(c, j)
        \/ GetNamesReturn(c)

\* the three caches with all their readers and writers: the category is
\* expanded and the cursor rests on its episodes (the busy indicator and the
\* collapsing of nodes touch no cache and are left out)
SpecCaches == TreeInit /\ [][LoadEpisodesNext \/ ResolveNext]_vars

\* the year derivation on every source identifier of up to MaxIdLen characters
YearInit ==
    /\ tree = ("category" :> CategoryNode) @@ ("full" :> FullSessionsNode)
    /\ loads = [l \in 1..MaxLoads |-> IdleLoad]
    /\ drawn = [l \in 1..MaxLoads |-> {}]
    /\ episodeMap = <<>>
    /\ episodeMapMutex = UnlockedMutex
    /\ crashed = FALSE
    /\ driverMap = <<>> /\ driverMapMutex = UnlockedMutex
    /\ teamMap = <<>> /\ teamMapMutex = UnlockedMutex
    /\ lines = [L \in ListIds |-> CatalogList(L)]
    /\ calls = [c \in CallSlots |-> IdleCall]
    /\ fetches = <<>>
    /\ yrInput \in SeqsUpTo(Chars, MaxIdLen) /\ yrPc = "idle" /\ yrOut = <<>>
    /\ orgInput = <<>> /\ orgPc = "idle" /\ orgKids = <<>>
    /\ options = NoOptions /\ pnode = PlaybackNode("string", PlayText)
    /\ dispatched = <<>> /\ monitors = <<>>
    /\ fills = [f \in CallSlots |-> IdleFill] /\ abortq = <<>>
    /\ conv = IdleConv /\ named = IdleNamed /\ wb = IdleNode
    /\ pool = [urls |-> 0, spawn |-> 0, guard |-> 0]

SpecYear == YearInit /\ [][DeriveYear]_vars

\* the organizer on every list of up to MaxEpisodes fetched episodes
OrganizeInit ==
    /\ tree = ("category" :> CategoryNode) @@ ("full" :> FullSessionsNode)
    /\ loads = [l \in 1..MaxLoads |-> IdleLoad]
    /\ drawn = [l \in 1..MaxLoads |-> {}]
    /\ episodeMap = <<>>
    /\ episodeMapMutex = UnlockedMutex
    /\ crashed = FALSE
    /\ driverMap = <<>> /\ driverMapMutex = UnlockedMutex
    /\ teamMap = <<>> /\ teamMapMutex = UnlockedMutex
    /\ lines = [L \in ListIds |-> CatalogList(L)]
    /\ calls = [c \in CallSlots |-> IdleCall]
    /\ fetches = <<>>
    /\ yrInput = <<>> /\ yrPc = "idle" /\ yrOut = <<>>
    /\ orgInput \in SeqsUpTo(EpisodePool, MaxEpisodes) /\ orgPc = "idle" /\ orgKids = <<>>
    /\ options = NoOptions /\ pnode = PlaybackNode("string", PlayText)
    /\ dispatched = <<>> /\ monitors = <<>>
    /\ fills = [f \in CallSlots |-> IdleFill] /\ abortq = <<>>
    /\ conv = IdleConv /\ named = IdleNamed /\ wb = IdleNode
    /\ pool = [urls |-> 0, spawn |-> 0, guard |-> 0]

SpecOrganize == OrganizeInit /\ [][Organize]_vars

\* one playback node under an episode: a custom node with every configuration
\* of up to MaxCommands commands, or one of the built-in nodes
DispatchInit ==
    /\ tree = ("category" :> CategoryNode) @@ ("full" :> FullSessionsNode)
    /\ loads = [l \in 1..MaxLoads |-> IdleLoad]
    /\ drawn = [l \in 1..MaxLoads |-> {}]
    /\ episodeMap = <<>>
    /\ episodeMapMutex = UnlockedMutex
    /\ crashed = FALSE
    /\ driverMap = <<>> /\ driverMapMutex = UnlockedMutex
    /\ teamMap = <<>> /\ teamMapMutex = UnlockedMutex
    /\ lines = [L \in ListIds |-> CatalogList(L)]
    /\ calls = [c \in CallSlots |-> IdleCall]
    /\ fetches = <<>>
    /\ yrInput = <<>> /\ yrPc = "idle" /\ yrOut = <<>>
    /\ orgInput = <<>> /\ orgPc = "idle" /\ orgKids = <<>>
    /\ options \in CustomOptions \cup {NoOptions}
    /\ pnode \in IF options = NoOptions
                 THEN {PlaybackNode("string", PlayText),
                       PlaybackNode("[]string", DownloadText),
                       PlaybackNode("string", GetUrlText)}
                 ELSE {PlaybackNode("custom", CustomText)}
    /\ dispatched = <<>> /\ monitors = <<>>
    /\ fills = [f \in CallSlots |-> IdleFill] /\ abortq = <<>>
    /\ conv = IdleConv /\ named = IdleNamed /\ wb = IdleNode
    /\ pool = [urls |-> 0, spawn |-> 0, guard |-> 0]

\* the user selects the playback node; the monitors run
DispatchNext ==
    \/ DispatchCustom
    \/ DispatchPlay
    \/ DispatchDownload
    \/ DispatchGetUrl
    \/ DispatchIgnored
    \/ \E m \in 1..MaxDispatches :
        \/ ScanLine(m, TRUE)
        \/ ScanLine(m, FALSE)
        \/ ScanClosed(m)
        \/ MonitorBlink(m)

SpecDispatch == DispatchInit /\ [][DispatchNext]_vars

\* the Go scheduler runs every busy-indicator goroutine that can take a step
SpecMonitor ==
    DispatchInit /\ [][DispatchNext]_vars
    /\ \A m \in 1..MaxDispatches : WF_vars(MonitorBlink(m))

\* addEpisodes on a category of up to MaxPoolUrls content URLs
PoolInit ==
    /\ tree = ("category" :> CategoryNode) @@ ("full" :> FullSessionsNode)
    /\ loads = [l \in 1..MaxLoads |-> IdleLoad]
    /\ drawn = [l \in 1..MaxLoads |-> {}]
    /\ episodeMap = <<>>
    /\ episodeMapMutex = UnlockedMutex
    /\ crashed = FALSE
    /\ driverMap = <<>> /\ driverMapMutex = UnlockedMutex
    /\ teamMap = <<>> /\ teamMapMutex = UnlockedMutex
    /\ lines = [L \in ListIds |-> CatalogList(L)]
    /\ calls = [c \in CallSlots |-> IdleCall]
    /\ fetches = <<>>
    /\ yrInput = <<>> /\ yrPc = "idle" /\ yrOut = <<>>
    /\ orgInput = <<>> /\ orgPc = "idle" /\ orgKids = <<>>
    /\ options = NoOptions /\ pnode = PlaybackNode("string", PlayText)
    /\ dispatched = <<>> /\ monitors = <<>>
    /\ fills = [f \in CallSlots |-> IdleFill] /\ abortq = <<>>
    /\ conv = IdleConv /\ named = IdleNamed /\ wb = IdleNode
    /\ pool \in [urls : 0..MaxPoolUrls, spawn : {0}, guard : {0}]

SpecPool == PoolInit /\ [][PoolSpawn \/ PoolRelease]_vars

\* the category is expanded and the cursor moves over its episodes: every
\* move starts a fill of the info table
FillInit ==
    /\ tree = ("category" :>
                [CategoryNode EXCEPT !.children =
                    AttachAll(<<>>, <<>>,
                        SortEpisodes([k \in 1..NumContentUrls |->
                                        CatalogEpisode(ContentUrls[k])]))])
              @@ ("full" :> FullSessionsNode)
    /\ loads = [l \in 1..MaxLoads |-> IdleLoad]
    /\ drawn = [l \in 1..MaxLoads |-> {}]
    /\ episodeMap = [u \in {ContentUrls[k] : k \in 1..NumContentUrls} |-> CatalogEpisode(u)]
    /\ episodeMapMutex = UnlockedMutex
    /\ crashed = FALSE
    /\ driverMap = <<>> /\ driverMapMutex = UnlockedMutex
    /\ teamMap = <<>> /\ teamMapMutex = UnlockedMutex
    /\ lines = [L \in ListIds |-> CatalogList(L)]
    /\ calls = [c \in CallSlots |-> IdleCall]
    /\ fetches = <<>>
    /\ yrInput = <<>> /\ yrPc = "idle" /\ yrOut = <<>>
    /\ orgInput = <<>> /\ orgPc = "idle" /\ orgKids = <<>>
    /\ options = NoOptions /\ pnode = PlaybackNode("string", PlayText)
    /\ dispatched = <<>> /\ monitors = <<>>
    /\ fills = [f \in CallSlots |-> IdleFill] /\ abortq = <<>>
    /\ conv = IdleConv /\ named = IdleNamed /\ wb = IdleNode
    /\ pool = [urls |-> 0, spawn |-> 0, guard |-> 0]

FillWorkers ==
    \E c \in CallSlots :
        \/ \E j \in 1..2 :
            \/ NameRLock(c, j)
            \/ NameRead(c, j)
            \/ NameFetch(c, j)
            \/ NameLock(c, j)
            \/ NameWrite(c, j)
            \/ NameStore(c, j)
        \/ GetNamesReturn(c)

FillSteps ==
    \E f \in CallSlots :
        \/ \E k \in 1..NumContentUrls : FillStart(f, k)
        \/ FillSelect(f)
        \/ FillUnchanged(f)
        \/ FillConvert(f)
        \/ FillRow(f)

FillNext == FillSteps \/ FillWorkers \/ \E f \in CallSlots : SenderSend(f)

SpecFills == FillInit /\ [][FillNext]_vars

\* the fills of the episodes that name no driver and no team
PlainEpisodes == {k \in 1..NumContentUrls : \A r \in 1..Len(Rows) : lines[<<k, Rows[r]>>] = <<>>}

AbortNext ==
    \E f \in CallSlots :
        \/ \E k \in PlainEpisodes : FillStart(f, k)
        \/ FillSelect(f)
        \/ FillUnchanged(f)
        \/ SenderSend(f)

SpecAbort == FillInit /\ [][AbortNext]_vars

\* the fills while the scheduler has not yet run their sender goroutines
SpecOverlap == FillInit /\ [][FillSteps \/ FillWorkers]_vars

ConvertInit ==
    /\ tree = ("category" :> CategoryNode) @@ ("full" :> FullSessionsNode)
    /\ loads = [l \in 1..MaxLoads |-> IdleLoad]
    /\ drawn = [l \in 1..MaxLoads |-> {}]
    /\ episodeMap = <<>>
    /\ episodeMapMutex = UnlockedMutex
    /\ crashed = FALSE
    /\ driverMap = <<>> /\ driverMapMutex = UnlockedMutex
    /\ teamMap = <<>> /\ teamMapMutex = UnlockedMutex
    /\ lines = [L \in ListIds |-> CatalogList(L)]
    /\ calls = [c \in CallSlots |-> IdleCall]
    /\ fetches = <<>>
    /\ yrInput = <<>> /\ yrPc = "idle" /\ yrOut = <<>>
    /\ orgInput = <<>> /\ orgPc = "idle" /\ orgKids = <<>>
    /\ options = NoOptions /\ pnode = PlaybackNode("string", PlayText)
    /\ dispatched = <<>> /\ monitors = <<>>
    /\ fills = [f \in CallSlots |-> IdleFill] /\ abortq = <<>>
    /\ conv \in [input : SeqsUpTo(ConvPool, MaxConvLines), pc : {"call"}, kind : {"none"}] /\ named = IdleNamed /\ wb = IdleNode
    /\ pool = [urls |-> 0, spawn |-> 0, guard |-> 0]

SpecConvert == ConvertInit /\ [][Convert]_vars

NumberInit ==
    /\ tree = ("category" :> CategoryNode) @@ ("full" :> FullSessionsNode)
    /\ loads = [l \in 1..MaxLoads |-> IdleLoad]
    /\ drawn = [l \in 1..MaxLoads |-> {}]
    /\ episodeMap = <<>>
    /\ episodeMapMutex = UnlockedMutex
    /\ crashed = FALSE
    /\ driverMap = <<>> /\ driverMapMutex = UnlockedMutex
    /\ teamMap = <<>> /\ teamMapMutex = UnlockedMutex
    /\ lines = [L \in ListIds |-> CatalogList(L)]
    /\ calls = [c \in CallSlots |-> IdleCall]
    /\ fetches = <<>>
    /\ yrInput = <<>> /\ yrPc = "idle" /\ yrOut = <<>>
    /\ orgInput = <<>> /\ orgPc = "idle" /\ orgKids = <<>>
    /\ options = NoOptions /\ pnode = PlaybackNode("string", PlayText)
    /\ dispatched = <<>> /\ monitors = <<>>
    /\ fills = [f \in CallSlots |-> IdleFill] /\ abortq = <<>>
    /\ conv = IdleConv /\ named \in [driver : [DriverRacingnumber : 0..MaxNumber,
                                 FirstName : {<<>>, <<"A">>},
                                 LastName : {<<"B">>}],
                       pc : {"call"}, out : {<<>>}] /\ wb = IdleNode
    /\ pool = [urls |-> 0, spawn |-> 0, guard |-> 0]

SpecNumber == NumberInit /\ [][NameDriver]_vars

BlinkInit ==
    /\ tree = ("category" :> CategoryNode) @@ ("full" :> FullSessionsNode)
    /\ loads = [l \in 1..MaxLoads |-> IdleLoad]
    /\ drawn = [l \in 1..MaxLoads |-> {}]
    /\ episodeMap = <<>>
    /\ episodeMapMutex = UnlockedMutex
    /\ crashed = FALSE
    /\ driverMap = <<>> /\ driverMapMutex = UnlockedMutex
    /\ teamMap = <<>> /\ teamMapMutex = UnlockedMutex
    /\ lines = [L \in ListIds |-> CatalogList(L)]
    /\ calls = [c \in CallSlots |-> IdleCall]
    /\ fetches = <<>>
    /\ yrInput = <<>> /\ yrPc = "idle" /\ yrOut = <<>>
    /\ orgInput = <<>> /\ orgPc = "idle" /\ orgKids = <<>>
    /\ options = NoOptions /\ pnode = PlaybackNode("string", PlayText)
    /\ dispatched = <<>> /\ monitors = <<>>
    /\ fills = [f \in CallSlots |-> IdleFill] /\ abortq = <<>>
    /\ conv = IdleConv /\ named = IdleNamed /\ wb \in [text : {<<"node">>}, color : {"white", "red"},
                inv : {[i \in Blinks |-> IdleBlink]}]
    /\ pool = [urls |-> 0, spawn |-> 0, guard |-> 0]

BlinkNext ==
    \E i \in Blinks :
        \/ \E after \in BOOLEAN : WithBlink(i, after)
        \/ FnReturns(i)
        \/ BlinkBegin(i)
        \/ BlinkTick(i)
        \/ BlinkDone(i)
        \/ BlinkAfter(i)

\* the scheduler runs every goroutine that can run, and a select whose done
\* case stays ready takes it at some point
SpecBlink ==
    /\ BlinkInit
    /\ [][BlinkNext]_vars
    /\ \A i \in Blinks :
        WF_vars(BlinkBegin(i)) /\ WF_vars(BlinkDone(i)) /\ WF_vars(BlinkAfter(i))

(***************************************************************************)
(* Properties.                                                             *)
(***************************************************************************)
\* the loader of the slot has run to its last statement
LoaderEnded(l) == loads[l].pcL = "end"
\* the loader and the busy indicator of the slot have both ended
ExpansionEnded(l) == LoaderEnded(l) /\ loads[l].pcB = "end"
ExpandedNode(l) == tree[loads[l].node]

\* C1: during an expansion every redraw shows the node's child list either
\* empty or as the complete final child set, never a strict non-empty part
C1_AllOrNothing ==
    \A l \in Slots :
        LoaderEnded(l) =>
            \A shown \in drawn[l] : shown = <<>> \/ shown = loads[l].final

\* C2: a fetch that fails and returns the zero-value record never crashes the
\* process
C2_NeverCrashes == ~crashed

\* a result of a fetch worker that is a child to show: an event node, or a
\* session node with at least one perspective
ValidChild(r) == r.kind # "nil" /\ (r.kind = "session" => Len(r.kids) > 0)

\* the expansion of the slot found no valid child
NoValidChildren(l) ==
    CASE loads[l].kind \in {"season", "event"} ->
            \A k \in 1..Len(loads[l].results) : ~ValidChild(loads[l].results[k])
      [] loads[l].kind = "allSeasons" -> loads[l].results = <<>>
      [] OTHER -> loads[l].episodes = <<>>

\* the terminal state of a node without content
NoContentState(node) ==
    /\ ~node.selectable
    /\ node.color = "Red"
    /\ node.text # <<>> /\ node.text[Len(node.text)] = NoContentText
    /\ node.children = <<>>

\* C3: an expansion of any kind that yields no valid child ends with the node
\* not selectable, flagged as having no content and without children
C3_NoContentState ==
    \A l \in Slots :
        ExpansionEnded(l) /\ NoValidChildren(l) => NoContentState(ExpandedNode(l))

\* the child entry a valid result is attached as
ChildEntry(l, r) == IF loads[l].kind = "season" THEN ChildRef(r.id) ELSE r

RECURSIVE UsableEntries(_, _)
UsableEntries(l, results) ==
    IF results = <<>> THEN <<>>
    ELSE (IF ValidChild(Head(results)) THEN <<ChildEntry(l, Head(results))>> ELSE <<>>)
         \o UsableEntries(l, Tail(results))

\* C4: after a season or event expansion the child list holds exactly one node
\* per fetched child with usable content and nothing, neither an empty node
\* nor a nil placeholder, for the others
C4_OnlyUsableChildren ==
    \A l \in Slots :
        LoaderEnded(l) /\ loads[l].kind \in {"season", "event"} =>
            ExpandedNode(l).children = UsableEntries(l, loads[l].results)

\* every fetch worker of the expansion has been started and has finished
WorkersFinished(l) ==
    \A i \in DOMAIN loads[l].workers : loads[l].workers[i].pc = "finished"

\* C5: in every expansion a step of the loader that changes the child list of
\* the expanded node is taken only when every fetch worker of the expansion
\* has finished
C5_JoinBeforeAttach ==
    [][\A l \in Slots :
        LoaderRunning(l) /\ loads'[l] # loads[l]
          /\ tree'[loads[l].node].children # tree[loads[l].node].children
        => WorkersFinished(l)]_vars

\* C5 witness: an expansion with fetch workers has attached a child
C5_Witness ==
    \E l \in Slots :
        /\ loads[l].touched
        /\ Len(loads[l].workers) >= 2
        /\ Len(tree[loads[l].node].children) >= 1

\* C6 as stated: no identifier is fetched more than once
C6_AtMostOneFetch == \A id \in DOMAIN fetches : fetches[id] <= 1

NameWorkers == {cj \in CallSlots \X (1..MaxWorkers) : cj[2] \in DOMAIN calls[cj[1]].workers}

\* C6 amended: a worker fetches only after its own cache lookup found no entry,
\* and a lookup that finds the entry of its identifier goes on without a fetch
C6_FetchOnlyAfterMiss ==
    [][\A cj \in NameWorkers :
        LET c == cj[1]
            j == cj[2]
            w == calls[c].workers[j]
        IN  /\ (w.pc = "fetch" /\ fetches' # fetches
                    /\ cj[2] \in DOMAIN calls'[c].workers
                    /\ calls'[c].workers[j].pc = "lock") => ~w.ok
            /\ (w.pc = "read" /\ Line(c, j) \in DOMAIN MapOf(calls[c].kind)
                    /\ calls'[c].workers[j] # w)
               => calls'[c].workers[j].pc = "name" /\ fetches' = fetches]_vars

\* C6 witness: a lookup was a cache hit after the identifier had been fetched
C6_Witness ==
    \E cj \in NameWorkers :
        LET w == calls[cj[1]].workers[cj[2]]
        IN  w.pc = "name" /\ w.ok /\ fetches # <<>>

\* the tasks inside the read and the write critical section of each cache
EpisodeTasksAt(pc) ==
    {<<l, i>> \in Slots \X (1..NumContentUrls) :
        IsCategoryLoad(l) /\ i \in DOMAIN loads[l].workers
            /\ loads[l].workers[i].pc = pc}
NameTasksAt(kind, pc) ==
    {cj \in NameWorkers :
        calls[cj[1]].kind = kind /\ calls[cj[1]].workers[cj[2]].pc = pc}

Exclusive(writers, readers) ==
    Cardinality(writers) <= 1 /\ (writers # {} => readers = {})

\* C7: in each of the three caches a task inside the write section excludes
\* every other task from the read and the write section of that cache
C7_MutualExclusion ==
    /\ Exclusive(EpisodeTasksAt("write"), EpisodeTasksAt("read"))
    /\ Exclusive(NameTasksAt("driver", "write"), NameTasksAt("driver", "read"))
    /\ Exclusive(NameTasksAt("team", "write"), NameTasksAt("team", "read"))

\* C7 witness: a task is inside a write section while another task of the same
\* cache waits to get in
C7_Witness ==
    /\ NameTasksAt("driver", "write") # {}
    /\ NameTasksAt("driver", "rlock") \cup NameTasksAt("driver", "lock") # {}

\* the step creates only entries that hold a fetched record, and changes no entry
EntriesKept(old, new, zero) ==
    \A id \in DOMAIN new :
        IF id \in DOMAIN old THEN new[id] = old[id] ELSE new[id] # zero

\* C8: a cache entry is created only by a successful fetch and its value never
\* changes afterwards
C8_CreatedOnceBySuccess ==
    [][/\ EntriesKept(episodeMap, episodeMap', ZeroEpisode)
       /\ EntriesKept(driverMap, driverMap', ZeroDriver)
       /\ EntriesKept(teamMap, teamMap', ZeroTeam)]_vars

FourDigits(s) == Len(s) >= 4 /\ \A k \in 1..4 : IsDigit(s[k])

\* the children of the category that are year buckets, and its direct episodes
InBucket(kids, ep) ==
    \E y \in 1..Len(kids) :
        kids[y].kind = "year" /\ \E k \in 1..Len(kids[y].kids) : kids[y].kids[k].ref = ep
IsResidual(kids, ep) ==
    \E r \in 1..Len(kids) : kids[r].kind = "episode" /\ kids[r].ref = ep

\* C9: every episode whose source identifier starts with four digits is under
\* a year bucket, every other episode is a direct child of the category, and
\* the direct episode children are in ascending title order
C9_BucketsAndResidual ==
    orgPc = "done" =>
        /\ \A k \in 1..Len(orgInput) :
            IF FourDigits(orgInput[k].DataSourceID)
            THEN InBucket(orgKids, orgInput[k])
            ELSE IsResidual(orgKids, orgInput[k])
        /\ \A i, j \in 1..Len(orgKids) :
            i < j /\ orgKids[i].kind = "episode" /\ orgKids[j].kind = "episode"
                => ~StrLess(orgKids[j].ref.Title, orgKids[i].ref.Title)

\* the year the rule gives for an identifier with four leading digits
RuleYear(s) ==
    IF SubSeq(s, 1, 4) \in {<<"2", "0", "1", "8">>, <<"2", "0", "1", "9">>}
    THEN SubSeq(s, 1, 4)
    ELSE IF DigitsValue(SubSeq(s, 1, 2)) < 30 THEN <<"2", "0">> \o SubSeq(s, 1, 2)
    ELSE <<"1", "9">> \o SubSeq(s, 1, 2)

\* C10: for an identifier with four leading digits the bucket label is the
\* year of the rule, and the year the episodes are ordered by is the same year
C10_DerivedYear ==
    yrPc = "done" /\ FourDigits(yrInput) =>
        /\ yrOut.label = RuleYear(yrInput)
        /\ yrOut.order = yrOut.label

\* the race number the comparator orders an episode by
RaceNumber(ep) == getYearAndRace(ep.DataSourceID)[2]

\* C11: in every year bucket the episodes are in non-decreasing order of
\* (derived year, race number); the year is the one of the bucket, so the race
\* numbers never decrease
C11_BucketOrder ==
    orgPc = "done" =>
        \A y \in 1..Len(orgKids) :
            orgKids[y].kind = "year" =>
                \A i, j \in 1..Len(orgKids[y].kids) :
                    i < j => ~StrLess(RaceNumber(orgKids[y].kids[j].ref),
                                      RaceNumber(orgKids[y].kids[i].ref))

\* the bucket years of the dated episodes of a list, each at its first place
RECURSIVE FirstYears(_, _)
FirstYears(eps, seen) ==
    IF eps = <<>> THEN <<>>
    ELSE IF HasYearRaceID(Head(eps)) /\ BucketYear(Head(eps)) \notin seen
    THEN <<BucketYear(Head(eps))>>
             \o FirstYears(Tail(eps), seen \cup {BucketYear(Head(eps))})
    ELSE FirstYears(Tail(eps), seen)

YearNodesOf(kids) == SelectSeq(kids, LAMBDA k : k.kind = "year")

\* C12: the year buckets of the category are in the order in which the sorted
\* episode list first meets them, and every residual episode comes after
\* every year bucket
C12_BucketsThenResidual ==
    orgPc = "done" =>
        /\ [y \in 1..Len(YearNodesOf(orgKids)) |-> YearNodesOf(orgKids)[y].ref]
               = FirstYears(SortEpisodes(orgInput), {})
        /\ \A i, j \in 1..Len(orgKids) :
               orgKids[i].kind = "episode" /\ orgKids[j].kind = "year" => j < i

\* C12 witness: a category with two year buckets and a residual episode
C12_Witness ==
    /\ orgPc = "done"
    /\ Len(YearNodesOf(orgKids)) >= 2
    /\ \E r \in 1..Len(orgKids) : orgKids[r].kind = "episode"

\* some token of a non-empty command contains $file
NeedsFile(com) ==
    \E j \in 1..Len(com.Commands) : \E x \in 1..Len(com.Commands[j]) :
        ContainsFile(com.Commands[j][x])

\* every $file of the template of a started command stands replaced by path
FileReplacedBy(com, s, path) ==
    \A x \in 1..Len(s.argv) : \A p \in 1..Len(s.argv[x]) :
        /\ s.argv[x][p] # FileVar
        /\ com.Commands[s.j + 1][x][p] = FileVar => s.argv[x][p] = path

\* C13: one dispatch of a custom command node calls downloadAsset exactly
\* once when some token of a non-empty command contains $file and never
\* otherwise, and every $file is replaced by the path of that one download.
C13_OneDownload ==
    pnode.kind = "custom" =>
        \A k \in 1..Len(dispatched) :
            /\ Downloads(dispatched[k]) = IF NeedsFile(options) THEN 1 ELSE 0
            /\ \A i \in 1..Len(dispatched[k].started) :
                    FileReplacedBy(options, dispatched[k].started[i],
                                   downloadAsset(dispatched[k].url, CustomText, 1))

\* a dispatch ran two commands that both name $file
C13_Witness ==
    /\ pnode.kind = "custom"
    /\ \E k \in 1..Len(dispatched) :
        /\ Len(dispatched[k].started) = 2
        /\ \A i \in 1..2 : \E x \in 1..Len(options.Commands[i]) :
                ContainsFile(options.Commands[i][x])
        /\ Downloads(dispatched[k]) = 1

\* a watch is configured: a watch-phrase and a watched index inside the list
WatchConfigured(com) ==
    com.Watchphrase # "" /\ com.CommandToWatch \in 0..(Len(com.Commands) - 1)

\* the monitors the k-th dispatch spawned
MonitorsOf(k) == {m \in 1..Len(monitors) : monitors[m].dispatch = k}

\* C14: a dispatch without a configured watch spawns no monitor and leaves the
\* node in the dispatched color; a dispatch with a configured watch attaches
\* exactly one monitor, to the command at the watched index.
C14_DispatchedOrMonitored ==
    pnode.kind = "custom" =>
        \A k \in 1..Len(dispatched) :
            IF WatchConfigured(options)
            THEN /\ Cardinality(MonitorsOf(k)) = 1
                 /\ \A m \in MonitorsOf(k) : monitors[m].j = options.CommandToWatch
            ELSE /\ MonitorsOf(k) = {}
                 /\ dispatched[k].color = "Blue"

\* the scanner of monitor m has read a line with the watch-phrase or has seen
\* the stream closed
OutputEvent(m) == m \in 1..Len(monitors) /\ monitors[m].cause \in {"phrase", "closed"}

\* the busy indicator of monitor m has stopped
IndicatorStopped(m) == m \in 1..Len(monitors) /\ monitors[m].pcB = "end"

C16_FailedStartLeavesNodeAlone ==
    \A k \in 1..Len(dispatched) : \A i \in 1..Len(dispatched[k].started) :
        LET s == dispatched[k].started[i]
        IN  s.failed =>
                /\ s.j \in dispatched[k].logged
                /\ ~\E m \in MonitorsOf(k) : monitors[m].j = s.j
                /\ \A i2 \in 1..Len(dispatched[k].started) :
                        dispatched[k].started[i2].j = s.j => i2 = i

\* C17: no remote catalog call (getPlayableURL, downloadAsset, an entity
\* fetch) runs on the UI thread, inside the selection handler itself.
C17_NoRemoteCallOnUiThread ==
    \A k \in 1..Len(dispatched) : \A c \in 1..Len(dispatched[k].remote) :
        dispatched[k].remote[c].thread # "ui"

C19_TextRestored ==
    (monitors # <<>> /\ \A m \in 1..Len(monitors) : monitors[m].pcB = "end")
        => pnode.text # Loading

\* a step of the expansion in slot l: its loader, its workers or its busy
\* indicator
ExpansionStep(l) ==
    \/ AddEpisodesStart(l)
    \/ SpawnEpisodeWorker(l)
    \/ \E i \in 1..NumContentUrls :
        \/ EpisodeRLock(l, i)
        \/ EpisodeRead(l, i)
        \/ EpisodeFetch(l, i)
        \/ EpisodeLock(l, i)
        \/ EpisodeWrite(l, i)
        \/ EpisodeAppendRead(l, i)
        \/ EpisodeAppendStore(l, i)
        \/ EpisodeRelease(l, i)
        \/ EpisodeDone(l, i)
    \/ AddEpisodesWait(l)
    \/ AddEpisodesSort(l)
    \/ AddEpisodesAttach(l)
    \/ AddEpisodesAttached(l)
    \/ AddEpisodesSkipped(l)
    \/ AddEpisodesFinish(l)
    \/ BlinkGetText(l)
    \/ BlinkSetText(l)
    \/ BlinkOn(l)
    \/ BlinkOff(l)
    \/ BlinkEnd(l)
    \/ EventAfterBlink(l)
    \/ AddSeasonsFetch(l)
    \/ AddSeasonsAttach(l)
    \/ AddSeasonsFinish(l)
    \/ GetEventNodesStart(l)
    \/ GetSessionNodesStart(l)
    \/ \E m \in 1..2 :
        \/ EventWorker(l, m)
        \/ SessionWorkerGetSession(l, m)
        \/ SessionWorkerGetStreams(l, m)
    \/ FanOutWait(l)
    \/ SeasonAttach(l)
    \/ EventAttach(l)
    \/ FanOutFinish(l)

\* C20: with every remote fetch returning, an expansion that entered the
\* loading state leaves it: as long as its loader or its busy indicator has
\* not ended, the expansion can take a further step.
C20_ExpansionGoesOn == \A l \in Slots : ~Free(l) => ENABLED ExpansionStep(l)

\* the display names an identifier can resolve to: from its record, or from
\* the empty record when the fetch fails
NamesOf(kind, id) ==
    {DisplayName(kind, rec) :
        rec \in IF kind = "driver" THEN getDriver(id) ELSE getTeam(id)}

\* the lists a call on input may return: one display name per identifier, in
\* ascending order
ResolvedLists(kind, input) ==
    {SortStrings(names) :
        names \in {f \in [1..Len(input) -> UNION {NamesOf(kind, input[j]) : j \in 1..Len(input)}] :
                    \A j \in 1..Len(input) : f[j] \in NamesOf(kind, input[j])}}

\* C21: getDriverNames / getTeamNames returns, after all its workers have
\* finished, a list as long as its input that holds the display name of each
\* input identifier in ascending order, also when fetches fail.
C21_SortedNamesOfInput ==
    [][\A c \in CallSlots :
        GetNamesReturn(c) =>
            /\ \A j \in 1..Len(calls[c].workers) : calls[c].workers[j].pc = "finished"
            /\ lines'[calls[c].list] \in ResolvedLists(calls[c].kind, calls[c].input)]_vars

\* the identifiers of the lists as the episodes first supply them
SuppliedIds == UNION {{CatalogList(L)[j] : j \in 1..Len(CatalogList(L))} : L \in ListIds}

\* C27: every key of the driver and team caches and every argument of a remote
\* driver or team fetch is an identifier of a list as first supplied, never a
\* resolved display name, also when resolutions of one list run concurrently.
C27_OnlyIdentifiers ==
    (DOMAIN driverMap \cup DOMAIN teamMap \cup DOMAIN fetches) \subseteq SuppliedIds

\* a fill that goes through the rows of the info table and whose abort signal
\* no later fill has received
Writing(f) == fills[f].pc \in {"convert", "call"} /\ fills[f].sender # "done"

\* C28: when a new fill starts while an earlier one runs, the earlier one is
\* aborted: at most one fill that has received no abort signal writes the
\* info table.
C28_OneLiveFill == Cardinality({f \in CallSlots : Writing(f)}) <= 1

StartsWith(str, prefix) ==
    Len(str) >= Len(prefix) /\ SubSeq(str, 1, Len(prefix)) = prefix

\* C22: convertIDs treats the slice as drivers exactly when its first line
\* starts with "/api/driver/", as teams exactly when it starts with
\* "/api/team/", and returns it unchanged otherwise.
C22_DispatchByPrefix ==
    conv.pc = "done" =>
        conv.kind = IF conv.input = <<>> THEN "none"
                    ELSE IF StartsWith(conv.input[1], DriverPrefix) THEN "driver"
                    ELSE IF StartsWith(conv.input[1], TeamPrefix) THEN "team"
                    ELSE "none"

\* C23: the display name of a driver is " (<n>) <First> <Last>" with one
\* leading space when the racing number has one digit and
\* "(<n>) <First> <Last>" with no leading space when it has two.
C23_NumberPadding ==
    named.pc = "done" =>
        LET n == named.driver.DriverRacingnumber
            full == named.driver.FirstName \o <<" ">> \o named.driver.LastName
        IN  /\ n < 10 => named.out = <<" ", "(", DigitChar(n), ")", " ">> \o full
            /\ (n >= 10 /\ n < 100) =>
                named.out = <<"(", DigitChar(n \div 10), DigitChar(n % 10), ")", " ">> \o full

\* C23 witness: the name of a driver with a one-digit number was built and
\* starts with the space
C23_Witness ==
    /\ named.pc = "done"
    /\ named.driver.DriverRacingnumber = 7
    /\ named.driver.FirstName = <<"A">>
    /\ named.out = <<" ", "(", "7", ")", " ", "A", " ", "B">>

\* C29: for every call of withBlink, the busy indicator ends only after fn has
\* returned, after() runs only after the text and the color the node had
\* have been set again, and once fn has returned both goroutines of the call
\* come to their end, none stays blocked on the done channel.
C29_BlinkOrder ==
    /\ [](\A i \in Blinks :
            wb.inv[i].blink \in {"restored", "finished"} => wb.inv[i].fn = "finished")
    /\ [][\A i \in Blinks :
            /\ (wb.inv[i].blink = "loop" /\ wb'.inv[i].blink # "loop")
                    => /\ wb'.text = wb.inv[i].originalText
                       /\ wb'.color = wb.inv[i].originalColor
                       /\ ~wb'.inv[i].afterRan
            /\ (~wb.inv[i].afterRan /\ wb'.inv[i].afterRan)
                    => wb.inv[i].blink = "restored"]_vars
    /\ \A i \in Blinks :
            (wb.inv[i].fn = "send")
                ~> (wb.inv[i].fn = "finished" /\ wb.inv[i].blink = "finished")

\* C29 witness: fn returned, the node shows its text and color again and
\* after() has run
C29_Witness ==
    \E i \in Blinks :
        /\ wb.inv[i].fn = "finished" /\ wb.inv[i].blink = "finished"
        /\ wb.inv[i].after /\ wb.inv[i].afterRan
        /\ wb.inv[i].originalText = <<"node">>
        /\ wb.text = <<"node">> /\ wb.color = wb.inv[i].originalColor

\* C24: the payload of a node stays what it was when the node was made; only
\* the expansion of "Full Race Weekends" replaces one, the all-seasons marker
\* by the seasons it fetched, and it does so once: when an expansion sets the
\* payload, the node still holds the marker.
C24_PayloadKept ==
    [][/\ \A n \in DOMAIN tree :
            tree'[n].ref # tree[n].ref =>
                tree[n].ref.kind = "allSeasons" /\ tree'[n].ref.kind = "allSeasons"
       /\ \A l \in Slots :
            AddSeasonsFinish(l) => tree[loads[l].node].ref = FullSessionsNode.ref]_vars

\* C25: a node is expanded by one load at a time, so no fetched child is
\* attached to a node twice.
C25_NoChildTwice ==
    \A n \in DOMAIN tree :
        \A i, j \in 1..Len(tree[n].children) :
            tree[n].children[i] = tree[n].children[j] => i = j

\* C26: when the expansion of a category is complete, the episode nodes
\* attached to it, those in year buckets and those attached directly, are as
\* many as the content URLs: no episode is lost or doubled in the shared list.
C26_EveryEpisodeAttached ==
    \A l \in Slots :
        (LoaderEnded(l) /\ IsCategoryLoad(l)) =>
            Len(Flatten(ExpandedNode(l).children)) = Len(ContentUrls)

====
